---- MODULE Spec2Model ----
(***************************************************************************)
(* Verification model of the TradeAnalytics pipeline:                      *)
(*   - the interval optimizer _calcular_melhor_intervalo                   *)
(*     (modules/chart_generator.py), stepped one minute at a time;         *)
(*   - its callers and the trading-window filter that feeds them;          *)
(*   - the numeric normalizer and the null-result drop of the ingestors    *)
(*     (modules/data_processor.py);                                        *)
(*   - the ingestors at table level (headers, rows, the batch of files)    *)
(*     and the post-read check of the request handler (app.py);            *)
(*   - processar_dados_consolidados followed by the two chart functions    *)
(*     that call the optimizer.                                            *)
(* Optional values: None is the integer -1 where the value is a minute,    *)
(* NaN is an integer outside every sampled value.                          *)
(***************************************************************************)
EXTENDS Integers, Sequences, FiniteSets, TLC

VARIABLES
    \* ---- _calcular_melhor_intervalo ----
    df_intervalo,          \* the table argument: [colunas, linhas]
    min_minuto,            \* argument
    max_minuto,            \* argument
    somas_completas,       \* densified per-minute series
    minuto,                \* loop variable of the pass
    soma_atual,
    max_soma_global,
    melhor_inicio_global,
    melhor_fim_global,
    inicio_atual,
    pc,                    \* "inicio" | "laco" | "retornado" | "parado"
    retorno,               \* the tuple returned by the last call
    retorno_anterior,      \* the tuple returned by the call before
    chamadas,              \* number of calls made
    \* ---- processar_dados_consolidados / gerar_grafico_ganhos_por_minuto ----
    banco_com_hora,        \* rows that have a specific open time
    banco_filtrado_8_18,   \* the window-filtered view: [colunas, linhas]
    melhor_intervalo_geral,
    melhores_intervalos_robos_list,
    robos_unicos_8_18,     \* entities still to be handled by the loop
    todos_minutos,         \* the minute range walked by the last optimizer call
    pcg,                   \* "consolidar" | "grafico" | "robos" | "fim" | "parado"
    \* ---- processar_dados_excel / processar_dados_csv, one source ----
    variante,              \* "excel" | "csv"
    celulas_lidas,         \* the result column as read from the source
    df_ing,                \* the rows of the table being ingested
    nan_conversion_count,  \* parse failures counted by the last normalization
    pci,                   \* "lido" | "renomeado" | "filtrado" | "limpo" | "vazio" | "parado"
    \* ---- processar_dados_excel / processar_dados_csv, whole tables ----
    upload_type,           \* "single" | "multiple"
    files,                 \* the uploaded sources, in input order
    colunas_tempo,         \* [open, close]: the recognized time-column names
    file_index,            \* position of the next source of the batch
    banco_geral,           \* the table being worked on (single-table variant)
    dfs,                   \* tables of the sources that succeeded so far
    failed_files,          \* names of the sources that failed so far
    retorno_ingestor,      \* [df, nome]: what the ingestor returned
    erro_fonte,            \* the exception that left the ingestor, or SemErro
    pcf,                   \* position in the ingestor / request handler
    \* ---- processar_dados_consolidados ----
    banco_geral_bruto,     \* the table argument
    soma_absoluta_total,
    somas_absolutas_por_robo,
    count_operacoes_total_originais,
    banco_geral_com_data,
    banco_geral_final,
    erro_consolidado,      \* the exception raised, or SemErro
    pcc,                   \* position in processar_dados_consolidados
    \* ---- gerar_graficos_por_robo ----
    robos_unicos,          \* entities still to be handled by the loop
    soma_melhores_ganhos_individuais_8_18,
    pcr,                   \* "inicio" | "robos" | "retornado" | "parado"
    \* ---- _find_and_rename_result_column / _clean_numeric_result_column alone ----
    df_fn,                 \* the table argument: [colunas, linhas]
    col_name,              \* the column-name argument of the normalizer
    ret_fn,                \* [erro, df, ...]: what the call returned or raised
    pcfn,                  \* "entrada" | "renomeado" | "limpo" | "parado"
    \* ---- processar_dados_csv, the counter of the loop ----
    processed_files_count,
    \* ---- processar_dados_consolidados, the counts of the report ----
    count_sem_horario_especifico_display,
    count_operacoes_com_hora,
    \* ---- index(), concurrent POST requests ----
    relatorios_dir,        \* RELATORIOS_DIR_ABS on disk: [existe, arquivos]
    pcp,                   \* per request: position in index()
    saida,                 \* per request: the exit path taken, or SemSaida
    limpezas               \* per request: calls of limpar_diretorio_seguro made

varsIntervalo == <<df_intervalo, min_minuto, max_minuto, somas_completas, minuto,
                   soma_atual, max_soma_global, melhor_inicio_global,
                   melhor_fim_global, inicio_atual, pc, retorno, retorno_anterior,
                   chamadas>>

varsGrafico == <<banco_com_hora, banco_filtrado_8_18, melhor_intervalo_geral,
                 melhores_intervalos_robos_list, robos_unicos_8_18, todos_minutos, pcg>>

varsIngestao == <<variante, celulas_lidas, df_ing, nan_conversion_count, pci>>

varsFontes == <<upload_type, files, colunas_tempo, file_index, banco_geral, dfs,
                failed_files, retorno_ingestor, erro_fonte, pcf>>

varsConsolidado == <<banco_geral_bruto, soma_absoluta_total, somas_absolutas_por_robo,
                     count_operacoes_total_originais, banco_geral_com_data,
                     banco_geral_final, erro_consolidado, pcc>>

varsPorRobo == <<robos_unicos, soma_melhores_ganhos_individuais_8_18, pcr>>

varsFuncoes == <<df_fn, col_name, ret_fn, pcfn>>

varsLote == <<processed_files_count>>

varsContagens == <<count_sem_horario_especifico_display, count_operacoes_com_hora>>

varsPedidos == <<relatorios_dir, pcp, saida, limpezas>>

varsDemais == <<varsFuncoes, varsLote, varsContagens, varsPedidos>>

vars == <<varsIntervalo, varsGrafico, varsIngestao, varsFontes, varsConsolidado,
          varsPorRobo, varsDemais>>

----------------------------------------------------------------------------
(* Bounds and sampled inputs                                               *)

MaxLinhas == 3            \* rows of a sampled table
MinutoBase == 540         \* the minute before the sampled range
Largura == 3              \* minutes in the sampled range
MaxChamadas == 2          \* calls made on the same rows

None == -1
NaN == -1000000

ValoresAmostra == {-2, -1, 1, 2}

\* The sampled range is MinutoBase+1 .. MinutoBase+Largura; MinutoBase and
\* MinutoBase+Largura+1 are the minutes just outside it.
MinutosAmostra == (MinutoBase + 1) .. (MinutoBase + Largura)

ColunasCompletas == {"Minutos_Dia", "Resultado_Valor", "Robo"}

Linha(m, v, r) == [Minutos_Dia |-> m, Resultado_Valor |-> v, Robo |-> r]

LinhasAmostra ==
    {Linha(m, v, "RoboA") : m \in MinutosAmostra, v \in ValoresAmostra}
      \cup {Linha(MinutoBase, 2, "RoboA"), Linha(MinutoBase + Largura + 1, 2, "RoboA")}
      \cup {Linha(NaN, 1, "RoboA"), Linha(MinutoBase + 1, NaN, "RoboA")}

RECURSIVE SeqsAte(_, _)
SeqsAte(S, n) ==
    IF n = 0 THEN {<<>>}
    ELSE LET menores == SeqsAte(S, n - 1)
         IN menores \cup {Append(s, x) : s \in {t \in menores : Len(t) = n - 1}, x \in S}

\* A key that orders the sampled rows by minute, then by value.
Chave(r) == r.Minutos_Dia * 8 + r.Resultado_Valor

\* The tables of at most n sampled rows, each in one row order (by key); the
\* other row orders are the caller's, see Reordenacoes.
RECURSIVE TabelasAte(_, _)
TabelasAte(S, n) ==
    IF n = 0 THEN {<<>>}
    ELSE LET menores == TabelasAte(S, n - 1)
         IN menores \cup
              UNION {{Append(s, x) :
                         x \in {y \in S : Len(s) = 0 \/ Chave(s[Len(s)]) <= Chave(y)}} :
                     s \in {t \in menores : Len(t) = n - 1}}

\* Scenario A of the spec: minute sums {540:-5, 541:10, 542:10, 543:-3, 544:8}.
CenarioA == <<Linha(540, -5, "RoboA"), Linha(541, 10, "RoboA"), Linha(542, 10, "RoboA"),
              Linha(543, -3, "RoboA"), Linha(544, 8, "RoboA")>>

EntradasIntervalo ==
    {[df |-> [colunas |-> ColunasCompletas, linhas |-> l],
      min |-> MinutoBase + 1, max |-> MinutoBase + Largura] :
        l \in TabelasAte(LinhasAmostra, MaxLinhas)}
      \cup {[df |-> [colunas |-> c, linhas |-> <<Linha(MinutoBase + 1, 1, "RoboA")>>],
             min |-> MinutoBase + 1, max |-> MinutoBase + Largura] :
                c \in {{"Resultado_Valor", "Robo"}, {"Minutos_Dia", "Robo"}}}
      \cup {[df |-> [colunas |-> ColunasCompletas, linhas |-> CenarioA],
             min |-> 540, max |-> 544]}

----------------------------------------------------------------------------
(* _calcular_melhor_intervalo: pure helpers                                *)

Vazio(df) == Len(df.linhas) = 0

\* df.dropna(subset=[minutos_col, result_col])
Dropna(df) ==
    [df EXCEPT !.linhas =
        SelectSeq(df.linhas, LAMBDA r : r.Minutos_Dia # NaN /\ r.Resultado_Valor # NaN)]

RECURSIVE SomaColuna(_)
SomaColuna(linhas) ==
    IF Len(linhas) = 0 THEN 0
    ELSE SomaColuna(SubSeq(linhas, 1, Len(linhas) - 1)) + linhas[Len(linhas)].Resultado_Valor

GroupbyUltimo(df) ==
    [m \in {df.linhas[i].Minutos_Dia : i \in DOMAIN df.linhas} |->
        LET g == SelectSeq(df.linhas, LAMBDA r : r.Minutos_Dia = m)
        IN g[Len(g)].Resultado_Valor]

\* df_valid.groupby(minutos_col)[result_col].sum()
GroupbySum(df) ==
    [m \in {df.linhas[i].Minutos_Dia : i \in DOMAIN df.linhas} |->
        SomaColuna(SelectSeq(df.linhas, LAMBDA r : r.Minutos_Dia = m))]

\* soma_por_minuto.reindex(RangeIndex(min_minuto, max_minuto + 1), fill_value=0.0)
Reindex(soma_por_minuto, lo, hi) ==
    [m \in lo .. hi |-> IF m \in DOMAIN soma_por_minuto THEN soma_por_minuto[m] ELSE 0]

\* The locals of the pass as one record.
EstadoInicial(lo) ==
    [soma_atual |-> 0, max_soma_global |-> 0, melhor_inicio_global |-> None,
     melhor_fim_global |-> None, inicio_atual |-> lo]

\* One iteration of the for loop (lines 128-147).
PassoKadaneInicioErrado(e, m, soma_minuto) ==
    LET s == e.soma_atual + soma_minuto
        melhor == s > e.max_soma_global
    IN [soma_atual |-> IF s < 0 THEN 0 ELSE s,
        max_soma_global |-> IF melhor THEN s ELSE e.max_soma_global,
        melhor_inicio_global |-> IF melhor THEN e.inicio_atual ELSE e.melhor_inicio_global,
        melhor_fim_global |-> IF melhor THEN m ELSE e.melhor_fim_global,
        inicio_atual |-> IF s < 0 THEN m ELSE e.inicio_atual]

PassoKadaneSemReset(e, m, soma_minuto) ==
    LET s == e.soma_atual + soma_minuto
        melhor == s > e.max_soma_global
    IN [soma_atual |-> s,
        max_soma_global |-> IF melhor THEN s ELSE e.max_soma_global,
        melhor_inicio_global |-> IF melhor THEN e.inicio_atual ELSE e.melhor_inicio_global,
        melhor_fim_global |-> IF melhor THEN m ELSE e.melhor_fim_global,
        inicio_atual |-> e.inicio_atual]

PassoKadaneMaiorOuIgual(e, m, soma_minuto) ==
    LET s == e.soma_atual + soma_minuto
        melhor == s >= e.max_soma_global
    IN [soma_atual |-> IF s < 0 THEN 0 ELSE s,
        max_soma_global |-> IF melhor THEN s ELSE e.max_soma_global,
        melhor_inicio_global |-> IF melhor THEN e.inicio_atual ELSE e.melhor_inicio_global,
        melhor_fim_global |-> IF melhor THEN m ELSE e.melhor_fim_global,
        inicio_atual |-> IF s < 0 THEN m + 1 ELSE e.inicio_atual]

PassoKadane(e, m, soma_minuto) ==
    LET s == e.soma_atual + soma_minuto
        melhor == s > e.max_soma_global
    IN [soma_atual |-> IF s < 0 THEN 0 ELSE s,
        max_soma_global |-> IF melhor THEN s ELSE e.max_soma_global,
        melhor_inicio_global |-> IF melhor THEN e.inicio_atual ELSE e.melhor_inicio_global,
        melhor_fim_global |-> IF melhor THEN m ELSE e.melhor_fim_global,
        inicio_atual |-> IF s < 0 THEN m + 1 ELSE e.inicio_atual]

\* Lines 151-160: the tuple returned after the pass.
Resultado(e) ==
    IF e.melhor_inicio_global = None
    THEN [inicio |-> None, fim |-> None, ganho |-> 0]
    ELSE [inicio |-> e.melhor_inicio_global, fim |-> e.melhor_fim_global,
          ganho |-> e.max_soma_global]

SemIntervalo == [inicio |-> None, fim |-> None, ganho |-> 0]

EstadoAtual ==
    [soma_atual |-> soma_atual, max_soma_global |-> max_soma_global,
     melhor_inicio_global |-> melhor_inicio_global,
     melhor_fim_global |-> melhor_fim_global, inicio_atual |-> inicio_atual]

----------------------------------------------------------------------------
(* _calcular_melhor_intervalo: the state machine                           *)

\* The other components are not running.
IntervaloParado ==
    /\ df_intervalo = [colunas |-> {}, linhas |-> <<>>]
    /\ min_minuto = None
    /\ max_minuto = None
    /\ somas_completas = <<>>
    /\ minuto = None
    /\ soma_atual = 0
    /\ max_soma_global = 0
    /\ melhor_inicio_global = None
    /\ melhor_fim_global = None
    /\ inicio_atual = None
    /\ pc = "parado"
    /\ retorno = SemIntervalo
    /\ retorno_anterior = SemIntervalo
    /\ chamadas = 0

GraficoParado ==
    /\ banco_com_hora = <<>>
    /\ banco_filtrado_8_18 = [colunas |-> {}, linhas |-> <<>>]
    /\ melhor_intervalo_geral = SemIntervalo
    /\ melhores_intervalos_robos_list = <<>>
    /\ robos_unicos_8_18 = <<>>
    /\ todos_minutos = <<>>
    /\ pcg = "parado"

IngestaoParada ==
    /\ variante = "nenhuma"
    /\ celulas_lidas = <<>>
    /\ df_ing = <<>>
    /\ nan_conversion_count = 0
    /\ pci = "parado"

\* No exception, no column name, no table.
SemErro == "nenhum"
SemColuna == "nenhuma"
DataFrameVazio == [colunas |-> <<>>, linhas |-> <<>>]

FuncoesParadas ==
    /\ df_fn = DataFrameVazio
    /\ col_name = SemColuna
    /\ ret_fn = [erro |-> SemErro, df |-> DataFrameVazio]
    /\ pcfn = "parado"

\* processar_dados_csv, line 455.
LoteParado == processed_files_count = 0

ContagensParadas ==
    /\ count_sem_horario_especifico_display = 0
    /\ count_operacoes_com_hora = 0

MaxPedidos == 2           \* requests in flight at the same time
Pedidos == 1 .. MaxPedidos
SemSaida == "nenhuma"
SemDono == 0

\* The files of a request in the directory: the charts and the PDF.  Every
\* request uses the same names; an entry is the request whose data the file
\* holds, or SemDono when the file does not exist.
SemArquivos == [grafico |-> SemDono, pdf |-> SemDono]

PedidosParados ==
    /\ relatorios_dir = [existe |-> FALSE, arquivos |-> SemArquivos]
    /\ pcp = [r \in Pedidos |-> "parado"]
    /\ saida = [r \in Pedidos |-> SemSaida]
    /\ limpezas = [r \in Pedidos |-> 0]

DemaisParados == FuncoesParadas /\ LoteParado /\ ContagensParadas /\ PedidosParados

FontesParadas ==
    /\ upload_type = "nenhum"
    /\ files = <<>>
    /\ colunas_tempo = [open |-> <<>>, close |-> <<>>]
    /\ file_index = 0
    /\ banco_geral = DataFrameVazio
    /\ dfs = <<>>
    /\ failed_files = <<>>
    /\ retorno_ingestor = [df |-> DataFrameVazio, nome |-> SemColuna]
    /\ erro_fonte = SemErro
    /\ pcf = "parado"

ConsolidadoParado ==
    /\ banco_geral_bruto = <<>>
    /\ soma_absoluta_total = 0
    /\ somas_absolutas_por_robo = <<>>
    /\ count_operacoes_total_originais = 0
    /\ banco_geral_com_data = <<>>
    /\ banco_geral_final = <<>>
    /\ erro_consolidado = SemErro
    /\ pcc = "parado"

PorRoboParado ==
    /\ robos_unicos = <<>>
    /\ soma_melhores_ganhos_individuais_8_18 = 0
    /\ pcr = "parado"

\* Orders in which a caller may hand over the same rows: as they are,
\* reversed, and rotated by one.
Reordenacoes(df) ==
    LET n == Len(df.linhas)
    IN {df,
        [df EXCEPT !.linhas = [i \in 1 .. n |-> df.linhas[n + 1 - i]]],
        [df EXCEPT !.linhas = [i \in 1 .. n |-> df.linhas[(i % n) + 1]]]}

InitIntervalo ==
    /\ DemaisParados
    /\ \E e \in EntradasIntervalo :
          /\ df_intervalo = e.df
          /\ min_minuto = e.min
          /\ max_minuto = e.max
    /\ somas_completas = <<>>
    /\ minuto = None
    /\ soma_atual = 0
    /\ max_soma_global = 0
    /\ melhor_inicio_global = None
    /\ melhor_fim_global = None
    /\ inicio_atual = None
    /\ pc = "inicio"
    /\ retorno = SemIntervalo
    /\ retorno_anterior = SemIntervalo
    /\ chamadas = 0
    /\ GraficoParado
    /\ IngestaoParada
    /\ FontesParadas
    /\ ConsolidadoParado
    /\ PorRoboParado

\* Lines 100-106: the early returns.
RetornoAntecipado(df) ==
    \/ Vazio(df)
    \/ "Minutos_Dia" \notin df.colunas
    \/ "Resultado_Valor" \notin df.colunas
    \/ Vazio(Dropna(df))

\* Lines 100-126: the call up to the first iteration.
Chamar ==
    /\ pc \in {"inicio", "retornado"}
    /\ chamadas < MaxChamadas
    /\ \E df \in Reordenacoes(df_intervalo) :
          /\ df_intervalo' = df
          /\ IF RetornoAntecipado(df)
             THEN /\ retorno' = SemIntervalo
                  /\ pc' = "retornado"
                  /\ UNCHANGED <<somas_completas, minuto, soma_atual, max_soma_global,
                                 melhor_inicio_global, melhor_fim_global, inicio_atual>>
             ELSE /\ somas_completas' = Reindex(GroupbySum(Dropna(df)), min_minuto, max_minuto)
                  /\ max_soma_global' = 0
                  /\ soma_atual' = 0
                  /\ melhor_inicio_global' = None
                  /\ melhor_fim_global' = None
                  /\ inicio_atual' = min_minuto
                  /\ minuto' = min_minuto
                  /\ pc' = "laco"
                  /\ UNCHANGED retorno
    /\ retorno_anterior' = retorno
    /\ chamadas' = chamadas + 1
    /\ UNCHANGED <<min_minuto, max_minuto>>
    /\ UNCHANGED <<varsGrafico, varsIngestao, varsFontes, varsConsolidado, varsPorRobo, varsDemais>>

\* Lines 128-147: one iteration.
Passo ==
    /\ pc = "laco"
    /\ minuto <= max_minuto
    /\ LET e == PassoKadane(EstadoAtual, minuto, somas_completas[minuto])
       IN /\ soma_atual' = e.soma_atual
          /\ max_soma_global' = e.max_soma_global
          /\ melhor_inicio_global' = e.melhor_inicio_global
          /\ melhor_fim_global' = e.melhor_fim_global
          /\ inicio_atual' = e.inicio_atual
    /\ minuto' = minuto + 1
    /\ UNCHANGED <<df_intervalo, min_minuto, max_minuto, somas_completas, pc, retorno,
                   retorno_anterior, chamadas>>
    /\ UNCHANGED <<varsGrafico, varsIngestao, varsFontes, varsConsolidado, varsPorRobo, varsDemais>>

\* Lines 149-160: the return after the pass.
Retornar ==
    /\ pc = "laco"
    /\ minuto > max_minuto
    /\ retorno' = Resultado(EstadoAtual)
    /\ pc' = "retornado"
    /\ UNCHANGED <<df_intervalo, min_minuto, max_minuto, somas_completas, minuto, soma_atual,
                   max_soma_global, melhor_inicio_global, melhor_fim_global, inicio_atual,
                   retorno_anterior, chamadas>>
    /\ UNCHANGED <<varsGrafico, varsIngestao, varsFontes, varsConsolidado, varsPorRobo, varsDemais>>

NextIntervalo == Chamar \/ Passo \/ Retornar

Spec == InitIntervalo /\ [][NextIntervalo]_vars

----------------------------------------------------------------------------
(* The whole call as an operator, for the callers: the same prologue, the  *)
(* same iteration folded left to right over the range, the same return.    *)

RECURSIVE IterarKadane(_, _, _, _)
IterarKadane(e, somas, lo, hi) ==
    IF e = e /\ lo > hi THEN e
    ELSE IF lo = hi THEN PassoKadane(e, lo, somas[lo])
    ELSE LET meio == (lo + hi) \div 2
             esq == IterarKadane(e, somas, lo, meio)
         IN IF esq = esq THEN IterarKadane(esq, somas, meio + 1, hi) ELSE e

CalcularMelhorIntervalo(df, lo, hi) ==
    IF RetornoAntecipado(df) THEN SemIntervalo
    ELSE Resultado(IterarKadane(EstadoInicial(lo),
                                Reindex(GroupbySum(Dropna(df)), lo, hi), lo, hi))

\* Default arguments of _calcular_melhor_intervalo (lines 80-81).
MinMinutoPadrao == 8 * 60
MaxMinutoPadrao == 18 * 60 - 1

\* config.py
TRADING_HOUR_START == 8
TRADING_HOUR_END == 18

----------------------------------------------------------------------------
(* processar_dados_consolidados (window filter) and                        *)
(* gerar_grafico_ganhos_por_minuto                                         *)

MaxLinhasGrafico == 2     \* rows of a sampled dataset

RobosAmostra == {"RoboA", "RoboB"}
HorariosAmostra == {<<8, 0>>, <<10, 0>>, <<11, 40>>, <<18, 20>>, <<19, 0>>}
ValoresGrafico == {-1, 2}

LinhasComHoraAmostra ==
    {[Robo |-> r, Abertura |-> [hora |-> h[1], minuto |-> h[2]], Resultado_Valor |-> v] :
        r \in RobosAmostra, h \in HorariosAmostra, v \in ValoresGrafico}

InitGrafico ==
    /\ DemaisParados
    /\ banco_com_hora \in SeqsAte(LinhasComHoraAmostra, MaxLinhasGrafico)
    /\ banco_filtrado_8_18 = [colunas |-> {}, linhas |-> <<>>]
    /\ melhor_intervalo_geral = SemIntervalo
    /\ melhores_intervalos_robos_list = <<>>
    /\ robos_unicos_8_18 = <<>>
    /\ todos_minutos = <<>>
    /\ pcg = "consolidar"
    /\ IntervaloParado
    /\ IngestaoParada
    /\ FontesParadas
    /\ ConsolidadoParado
    /\ PorRoboParado

\* data_processor.py lines 724-741: Minutos_Dia and the trading-window filter.
ComMinutosDia(linhas) ==
    [i \in DOMAIN linhas |->
        [f \in (DOMAIN linhas[i]) \cup {"Minutos_Dia"} |->
            IF f = "Minutos_Dia"
            THEN linhas[i].Abertura.hora * 60 + linhas[i].Abertura.minuto
            ELSE linhas[i][f]]]

FiltroHorarioAteHoraCheia(r) ==
    /\ r.Minutos_Dia >= TRADING_HOUR_START * 60
    /\ r.Minutos_Dia <= TRADING_HOUR_END * 60

FiltroHorario(r) ==
    /\ r.Minutos_Dia >= TRADING_HOUR_START * 60
    /\ r.Minutos_Dia <= TRADING_HOUR_END * 60 + 59

FiltrarJanela ==
    /\ pcg = "consolidar"
    /\ banco_filtrado_8_18' =
          IF Len(banco_com_hora) = 0
          THEN [colunas |-> {}, linhas |-> <<>>]
          ELSE [colunas |-> ColunasCompletas \cup {"Abertura"},
                linhas |-> SelectSeq(ComMinutosDia(banco_com_hora), FiltroHorario)]
    /\ pcg' = "grafico"
    /\ UNCHANGED <<banco_com_hora, melhor_intervalo_geral, melhores_intervalos_robos_list,
                   robos_unicos_8_18, todos_minutos>>
    /\ UNCHANGED <<varsIntervalo, varsIngestao, varsFontes, varsConsolidado, varsPorRobo, varsDemais>>

\* Series.unique(): the distinct values in order of first appearance.
RECURSIVE Unicos(_)
Unicos(seq) ==
    IF Len(seq) = 0 THEN <<>>
    ELSE LET antes == Unicos(SubSeq(seq, 1, Len(seq) - 1))
             x == seq[Len(seq)]
         IN IF \E i \in DOMAIN antes : antes[i] = x THEN antes ELSE Append(antes, x)

\* An entity cell that is null.
RoboNulo == "<nulo>"

\* df[df[ROBO_COLUMN_NAME] == robo]: a null equals nothing, itself included.
DoRobo(df, robo) ==
    [df EXCEPT !.linhas = SelectSeq(df.linhas, LAMBDA r : r.Robo = robo /\ robo # RoboNulo)]

\* chart_generator.py lines 193-236: the guards and the global best interval.
GraficoGeral ==
    /\ pcg = "grafico"
    /\ IF Vazio(banco_filtrado_8_18) \/ "Minutos_Dia" \notin banco_filtrado_8_18.colunas
       THEN /\ melhor_intervalo_geral' = SemIntervalo
            /\ pcg' = "fim"
            /\ UNCHANGED <<robos_unicos_8_18, todos_minutos>>
       ELSE /\ melhor_intervalo_geral' =
                  CalcularMelhorIntervalo(banco_filtrado_8_18, MinMinutoPadrao, MaxMinutoPadrao)
            /\ todos_minutos' = <<MinMinutoPadrao, MaxMinutoPadrao>>
            /\ robos_unicos_8_18' =
                  Unicos([i \in DOMAIN banco_filtrado_8_18.linhas |->
                             banco_filtrado_8_18.linhas[i].Robo])
            /\ pcg' = "robos"
    /\ UNCHANGED <<banco_com_hora, banco_filtrado_8_18, melhores_intervalos_robos_list>>
    /\ UNCHANGED <<varsIntervalo, varsIngestao, varsFontes, varsConsolidado, varsPorRobo, varsDemais>>

\* chart_generator.py lines 237-249: one iteration of the per-entity loop.
GraficoRobo ==
    /\ pcg = "robos"
    /\ Len(robos_unicos_8_18) > 0
    /\ LET robo == Head(robos_unicos_8_18)
           df_robo_8_18 == DoRobo(banco_filtrado_8_18, robo)
           r == CalcularMelhorIntervalo(df_robo_8_18, MinMinutoPadrao, MaxMinutoPadrao)
       IN /\ melhores_intervalos_robos_list' =
                IF ~Vazio(df_robo_8_18) /\ r.inicio # None
                THEN Append(melhores_intervalos_robos_list,
                            [Robo |-> robo, Inicio_Intervalo |-> r.inicio,
                             Fim_Intervalo |-> r.fim, Ganho |-> r.ganho])
                ELSE melhores_intervalos_robos_list
          /\ todos_minutos' = <<MinMinutoPadrao, MaxMinutoPadrao>>
    /\ robos_unicos_8_18' = Tail(robos_unicos_8_18)
    /\ UNCHANGED <<banco_com_hora, banco_filtrado_8_18, melhor_intervalo_geral, pcg>>
    /\ UNCHANGED <<varsIntervalo, varsIngestao, varsFontes, varsConsolidado, varsPorRobo, varsDemais>>

\* chart_generator.py line 253: the loop is over.
GraficoFim ==
    /\ pcg = "robos"
    /\ Len(robos_unicos_8_18) = 0
    /\ pcg' = "fim"
    /\ UNCHANGED <<banco_com_hora, banco_filtrado_8_18, melhor_intervalo_geral,
                   melhores_intervalos_robos_list, robos_unicos_8_18, todos_minutos>>
    /\ UNCHANGED <<varsIntervalo, varsIngestao, varsFontes, varsConsolidado, varsPorRobo, varsDemais>>

NextGrafico == FiltrarJanela \/ GraficoGeral \/ GraficoRobo \/ GraficoFim

SpecGrafico == InitGrafico /\ [][NextGrafico]_vars

----------------------------------------------------------------------------
(* Text and number helpers of the ingestors.  A text is a sequence of      *)
(* one-character strings.  A number is [cls |-> "fin", mant, exp] for      *)
(* mant * 10^exp (mant not divisible by 10 unless 0), or [cls |-> "inf"],  *)
(* or [cls |-> "nan"].                                                     *)

Maiusculas == <<"A", "B", "C", "D", "E", "F", "G", "H", "I", "J", "K", "L", "M",
                "N", "O", "P", "Q", "R", "S", "T", "U", "V", "W", "X", "Y", "Z">>
Minusculas == <<"a", "b", "c", "d", "e", "f", "g", "h", "i", "j", "k", "l", "m",
                "n", "o", "p", "q", "r", "s", "t", "u", "v", "w", "x", "y", "z">>
Digitos == <<"0", "1", "2", "3", "4", "5", "6", "7", "8", "9">>

EhDigito(c) == \E i \in DOMAIN Digitos : Digitos[i] = c
ValorDigito(c) == (CHOOSE i \in DOMAIN Digitos : Digitos[i] = c) - 1

\* str.lower()
Lower(t) ==
    [i \in DOMAIN t |->
        IF \E k \in DOMAIN Maiusculas : Maiusculas[k] = t[i]
        THEN Minusculas[CHOOSE k \in DOMAIN Maiusculas : Maiusculas[k] = t[i]]
        ELSE t[i]]

\* str.strip()
RECURSIVE Strip(_)
Strip(t) ==
    IF Len(t) = 0 THEN t
    ELSE IF t[1] = " " THEN Strip(Tail(t))
    ELSE IF t[Len(t)] = " " THEN Strip(SubSeq(t, 1, Len(t) - 1))
    ELSE t

\* str.replace(c, '', regex=False)
Replace(t, c) == SelectSeq(t, LAMBDA x : x # c)

\* A cell as read: a text, or the missing value NaN, or None.
CelulaNaN == [tipo |-> "nan"]
CelulaNone == [tipo |-> "none"]
Texto(t) == [tipo |-> "str", s |-> t]

\* A cell of a column that the reader inferred as float64 / int64.
CelulaFloat(n) == [tipo |-> "float", n |-> n]
CelulaInt(v) == [tipo |-> "int", v |-> v]

RECURSIVE DigitosDe(_)
DigitosDe(v) ==
    IF v < 10 THEN <<Digitos[v + 1]>>
    ELSE DigitosDe(v \div 10) \o <<Digitos[(v % 10) + 1]>>

Zeros(k) == [i \in 1 .. k |-> "0"]

\* str(float): the shortest text that reads back as the value, positional
\* with at least one decimal while the decimal point stays within
\* 1e-4 .. 1e16, with a signed exponent of two digits or more outside.
FloatRepr(n) ==
    IF n.cls = "nan" THEN <<"n", "a", "n">>
    ELSE IF n.cls = "inf" THEN (IF n.neg THEN <<"-">> ELSE <<>>) \o <<"i", "n", "f">>
    ELSE IF n.mant = 0 THEN <<"0", ".", "0">>
    ELSE
      LET sinal == IF n.mant < 0 THEN <<"-">> ELSE <<>>
          D == DigitosDe(IF n.mant < 0 THEN -n.mant ELSE n.mant)
          k == Len(D)
          E == k - 1 + n.exp
          absE == IF E < 0 THEN -E ELSE E
          expTxt == IF absE < 10 THEN <<"0">> \o DigitosDe(absE) ELSE DigitosDe(absE)
      IN IF E >= 16 \/ E < -4
         THEN sinal \o <<D[1]>>
                \o (IF k > 1 THEN <<".">> \o SubSeq(D, 2, k) ELSE <<>>)
                \o <<"e", IF E < 0 THEN "-" ELSE "+">> \o expTxt
         ELSE IF n.exp >= 0
         THEN sinal \o D \o Zeros(n.exp) \o <<".", "0">>
         ELSE IF -n.exp < k
         THEN sinal \o SubSeq(D, 1, k + n.exp) \o <<".">> \o SubSeq(D, k + n.exp + 1, k)
         ELSE sinal \o <<"0", ".">> \o Zeros(-n.exp - k) \o D

\* Series.astype(str)
AsTypeStr(cel) ==
    IF cel.tipo = "nan" THEN <<"n", "a", "n">>
    ELSE IF cel.tipo = "none" THEN <<"N", "o", "n", "e">>
    ELSE IF cel.tipo = "float" THEN FloatRepr(cel.n)
    ELSE IF cel.tipo = "int"
    THEN (IF cel.v < 0 THEN <<"-">> \o DigitosDe(-cel.v) ELSE DigitosDe(cel.v))
    ELSE cel.s

NumNaN == [cls |-> "nan"]
NumInf(neg) == [cls |-> "inf", neg |-> neg]

RECURSIVE Num(_, _)
Num(mant, exp) ==
    IF mant = 0 THEN [cls |-> "fin", mant |-> 0, exp |-> 0]
    ELSE IF mant % 10 = 0 THEN Num(mant \div 10, exp + 1)
    ELSE [cls |-> "fin", mant |-> mant, exp |-> exp]

Zero == Num(0, 0)

TodosDigitos(t) == Len(t) > 0 /\ \A i \in DOMAIN t : EhDigito(t[i])

RECURSIVE ValorDigitos(_)
ValorDigitos(t) ==
    IF Len(t) = 0 THEN 0
    ELSE 10 * ValorDigitos(SubSeq(t, 1, Len(t) - 1)) + ValorDigito(t[Len(t)])

\* Position of the first element of t that is in S, or 0.
Primeiro(t, S) ==
    IF \E i \in DOMAIN t : t[i] \in S
    THEN CHOOSE i \in DOMAIN t : t[i] \in S /\ \A j \in 1 .. (i - 1) : t[j] \notin S
    ELSE 0

TemSinal(t) == Len(t) > 0 /\ t[1] \in {"+", "-"}
SemSinal(t) == IF TemSinal(t) THEN Tail(t) ELSE t
Negativo(t) == Len(t) > 0 /\ t[1] = "-"

\* pd.to_numeric(..., errors='coerce') on one text: an optionally signed
\* decimal number with an optional exponent, or an optionally signed
\* inf/infinity in any case; anything else is NaN.
ToNumeric(t) ==
    LET corpo == SemSinal(t)
        pe == Primeiro(corpo, {"e", "E"})
        mantissa == IF pe = 0 THEN corpo ELSE SubSeq(corpo, 1, pe - 1)
        expoente == IF pe = 0 THEN <<>> ELSE SubSeq(corpo, pe + 1, Len(corpo))
        pp == Primeiro(mantissa, {"."})
        inteira == IF pp = 0 THEN mantissa ELSE SubSeq(mantissa, 1, pp - 1)
        fracao == IF pp = 0 THEN <<>> ELSE SubSeq(mantissa, pp + 1, Len(mantissa))
        digitos == inteira \o fracao
        valorExp == IF pe = 0 THEN 0
                    ELSE (IF Negativo(expoente) THEN -1 ELSE 1)
                            * ValorDigitos(SemSinal(expoente))
    IN IF Lower(corpo) \in {<<"i", "n", "f">>,
                            <<"i", "n", "f", "i", "n", "i", "t", "y">>}
       THEN NumInf(Negativo(t))
       ELSE IF /\ TodosDigitos(digitos)
               /\ pe # 0 => TodosDigitos(SemSinal(expoente))
       THEN Num((IF Negativo(t) THEN -1 ELSE 1) * ValorDigitos(digitos),
                valorExp - Len(fracao))
       ELSE NumNaN

\* Lines 111-141: the text that is handed to pd.to_numeric.
LimparTextoSemPonto(cel) ==
    LET t1 == Strip(AsTypeStr(cel))
        t2 == Replace(t1, " ")
        t3 == Replace(t2, ",")
    IN Replace(Replace(t3, " "), ",")

LimparTexto(cel) ==
    LET t1 == Strip(AsTypeStr(cel))
        t2 == Replace(t1, " ")
        t3 == Replace(t2, ",")
    IN Replace(Replace(Replace(t3, " "), "."), ",")

\* Line 179: fillna(0).astype(float)
FillnaSemTroca(n) == n

Fillna(n) == IF n.cls = "nan" THEN Zero ELSE n

\* _clean_numeric_result_column (lines 95-197) on the rows of a table.
CleanNumericResultColumn(linhas) ==
    LET numeric == [i \in DOMAIN linhas |-> ToNumeric(LimparTexto(linhas[i].Resultado_Valor))]
    IN [linhas |-> [i \in DOMAIN linhas |->
                       [linhas[i] EXCEPT !.Resultado_Valor = Fillna(numeric[i])]],
        nan_conversion_count |-> Cardinality({i \in DOMAIN linhas : numeric[i].cls = "nan"})]

----------------------------------------------------------------------------
(* One source through processar_dados_excel / processar_dados_csv          *)

MaxLen == 3               \* characters of a sampled text
MaxCelulas == 2           \* cells of a sampled multi-row column

Alfabeto == {"1", "0", "-", ".", ",", " ", "a", "e", "i", "n", "f", "N", "o"}

\* The texts that the readers turn into the missing value (default
\* na_values of read_csv / read_excel) never reach the table as texts.
TextosNA == {<<>>, <<"n", "a", "n">>, <<"N", "a", "N">>, <<"N", "o", "n", "e">>,
             <<"N", "A">>, <<"n", "/", "a">>, <<"N", "/", "A">>,
             <<"n", "u", "l", "l">>, <<"N", "U", "L", "L">>}

T5(a, b, c, d, e) == <<a, b, c, d, e>>

\* Scenario C of the spec: "1.234", "1,234", " 500 ", "abc".
CenarioC == <<Texto(T5("1", ".", "2", "3", "4")), Texto(T5("1", ",", "2", "3", "4")),
              Texto(T5(" ", "5", "0", "0", " ")), Texto(<<"a", "b", "c">>)>>

CelulasAmostra ==
    {CelulaNaN, CelulaNone, Texto(<<" ">>), Texto(<<"0">>), Texto(<<"-", "1", "0">>),
     Texto(<<"a">>), Texto(<<"N", "a", "n">>), Texto(<<"i", "n", "f">>)}

\* Cells of a column read as numbers: 1234.0, -1.0, 0.0, 0.5, 2.5e+20,
\* inf, and the integers 1234 and -7.
NumerosAmostra ==
    {CelulaFloat([cls |-> "fin", mant |-> 1234, exp |-> 0]),
     CelulaFloat([cls |-> "fin", mant |-> -1, exp |-> 0]),
     CelulaFloat([cls |-> "fin", mant |-> 0, exp |-> 0]),
     CelulaFloat([cls |-> "fin", mant |-> 5, exp |-> -1]),
     CelulaFloat([cls |-> "fin", mant |-> 25, exp |-> 19]),
     CelulaFloat([cls |-> "inf", neg |-> FALSE]),
     CelulaInt(1234), CelulaInt(-7)}

ColunasLidas ==
    {<<c>> : c \in {Texto(t) : t \in SeqsAte(Alfabeto, MaxLen) \ TextosNA}
                      \cup {CelulaNaN, CelulaNone} \cup NumerosAmostra}
      \cup (SeqsAte(CelulasAmostra, MaxCelulas) \ {<<>>})
      \cup {CenarioC}

InitIngestao ==
    /\ DemaisParados
    /\ variante \in {"excel", "csv"}
    /\ celulas_lidas \in ColunasLidas
    /\ df_ing = [i \in DOMAIN celulas_lidas |-> [id |-> i, Resultado_Valor |-> celulas_lidas[i]]]
    /\ nan_conversion_count = 0
    /\ pci = "lido"
    /\ IntervaloParado
    /\ GraficoParado
    /\ FontesParadas
    /\ ConsolidadoParado
    /\ PorRoboParado

\* _find_and_rename_result_column, lines 73-79: the shadow column is filled
\* before the rename.
Renomear ==
    /\ pci = "lido"
    /\ df_ing' = [i \in DOMAIN df_ing |->
                    [id |-> df_ing[i].id,
                     Resultado_Valor |-> df_ing[i].Resultado_Valor,
                     Resultado_Valor_Original_Debug |->
                        Texto(AsTypeStr(df_ing[i].Resultado_Valor))]]
    /\ pci' = "renomeado"
    /\ UNCHANGED <<variante, celulas_lidas, nan_conversion_count>>
    /\ UNCHANGED <<varsIntervalo, varsGrafico, varsFontes, varsConsolidado, varsPorRobo, varsDemais>>

\* Lines 359-360 and 539-540: the mask of the rows to drop.
OriginalNanMaskSoNulos(r) ==
    r.Resultado_Valor_Original_Debug.tipo \in {"nan", "none"}

OriginalNanMaskSemEspacos(r) ==
    \/ r.Resultado_Valor_Original_Debug.tipo \in {"nan", "none"}
    \/ Lower(AsTypeStr(r.Resultado_Valor_Original_Debug))
          \in {<<"n", "a", "n">>, <<"n", "o", "n", "e">>, <<>>}

OriginalNanMask(r) ==
    \/ r.Resultado_Valor_Original_Debug.tipo \in {"nan", "none"}
    \/ Lower(Strip(AsTypeStr(r.Resultado_Valor_Original_Debug)))
          \in {<<"n", "a", "n">>, <<"n", "o", "n", "e">>, <<>>}

RemoverNulos ==
    /\ df_ing' = SelectSeq(df_ing, LAMBDA r : ~OriginalNanMask(r))
    /\ pci' = IF Len(df_ing') = 0 THEN "vazio" ELSE "filtrado"
    /\ UNCHANGED <<variante, celulas_lidas, nan_conversion_count>>
    /\ UNCHANGED <<varsIntervalo, varsGrafico, varsFontes, varsConsolidado, varsPorRobo, varsDemais>>

\* processar_dados_excel, lines 354-372.
ExcelRemoverNulos == pci = "renomeado" /\ variante = "excel" /\ RemoverNulos

\* processar_dados_csv, lines 535-554.
CsvRemoverNulos == pci = "renomeado" /\ variante = "csv" /\ RemoverNulos

SemDebug(r) == [id |-> r.id, Resultado_Valor |-> r.Resultado_Valor]

\* processar_dados_excel, lines 374-386: normalization, then the shadow
\* column is dropped.
ExcelLimpar ==
    /\ pci = "filtrado"
    /\ variante = "excel"
    /\ LET c == CleanNumericResultColumn(df_ing)
       IN /\ df_ing' = [i \in DOMAIN c.linhas |-> SemDebug(c.linhas[i])]
          /\ nan_conversion_count' = c.nan_conversion_count
    /\ pci' = "limpo"
    /\ UNCHANGED <<variante, celulas_lidas>>
    /\ UNCHANGED <<varsIntervalo, varsGrafico, varsFontes, varsConsolidado, varsPorRobo, varsDemais>>

\* processar_dados_csv, lines 556-568: normalization; the shadow column
\* stays among the passthrough columns.
CsvLimpar ==
    /\ pci = "filtrado"
    /\ variante = "csv"
    /\ LET c == CleanNumericResultColumn(df_ing)
       IN /\ df_ing' = c.linhas
          /\ nan_conversion_count' = c.nan_conversion_count
    /\ pci' = "limpo"
    /\ UNCHANGED <<variante, celulas_lidas>>
    /\ UNCHANGED <<varsIntervalo, varsGrafico, varsFontes, varsConsolidado, varsPorRobo, varsDemais>>

NextIngestao ==
    Renomear \/ ExcelRemoverNulos \/ CsvRemoverNulos \/ ExcelLimpar \/ CsvLimpar

SpecIngestao == InitIngestao /\ [][NextIngestao]_vars

----------------------------------------------------------------------------
(* The ingestors at table level.  A table is [colunas, linhas]: colunas is *)
(* the sequence of header names, a row is the sequence of its cells in     *)
(* column order.  pd.to_datetime changes no header and drops no row; the   *)
(* values of the time cells are modelled with processar_dados_consolidados.*)

\* config.py, lines 15-30.
RESULT_COLUMN_NAME == "Resultado_Valor"
PRIMARY_RESULT_COLUMN_EXCEL == "Res. Operação (%)"
FALLBACK_RESULT_COLUMNS_EXCEL == <<"Res. Operação", "Resultado", "Profit">>
PRIMARY_RESULT_COLUMN_CSV == "Res. Operação (%)"
FALLBACK_RESULT_COLUMNS_CSV == <<"Res. Operação", "Resultado", "Profit">>
OPEN_TIME_COLUMNS == <<"Abertura", "Data Abertura", "Open Time">>
CLOSE_TIME_COLUMNS == <<"Fechamento", "Data Fechamento", "Close Time">>
ROBO_COLUMN_NAME == "Robo"

\* str.lower() on the names that occur: <<name, lower-case form>>; a name
\* that is not listed is its own lower-case form.
ParesLower ==
    <<<<"Abertura", "abertura">>, <<"Data Abertura", "data abertura">>,
      <<"Open Time", "open time">>, <<"Fechamento", "fechamento">>,
      <<"Data Fechamento", "data fechamento">>, <<"Close Time", "close time">>,
      <<"Res. Operação (%)", "res. operação (%)">>,
      <<"Res. Operação", "res. operação">>, <<"Resultado", "resultado">>,
      <<"RESULTADO", "resultado">>, <<"Profit", "profit">>, <<" Profit", " profit">>,
      <<"Robo", "robo">>, <<"Data", "data">>,
      <<"Abertura_Original", "abertura_original">>,
      <<"Fechamento_Original", "fechamento_original">>,
      <<"Resultado_Valor", "resultado_valor">>,
      <<"Resultado_Valor_Original_Debug", "resultado_valor_original_debug">>>>

NomeLower(nome) ==
    IF \E i \in DOMAIN ParesLower : ParesLower[i][1] = nome
    THEN ParesLower[CHOOSE i \in DOMAIN ParesLower : ParesLower[i][1] = nome][2]
    ELSE nome

\* str.strip() on the names that occur.
NomeStrip(nome) == IF nome = " Profit" THEN "Profit" ELSE nome

\* werkzeug's secure_filename on the file names that occur (utils.py 65-80):
\* a space becomes an underscore.
SanitizeFilename(filename) ==
    IF filename = "Robo B.csv" THEN "Robo_B.csv" ELSE filename

\* os.path.splitext(filename)[0] on the sanitized names that occur.
SplitextRaiz(filename) ==
    CASE filename = "RoboA.csv" -> "RoboA"
      [] filename = "Robo_B.csv" -> "Robo_B"
      [] filename = "RoboC.v2.csv" -> "RoboC.v2"
      [] filename = "dados.xlsx" -> "dados"
      [] OTHER -> filename

Posicoes(colunas, nome) == {k \in DOMAIN colunas : colunas[k] = nome}

\* {col.lower(): col for col in df.columns}: membership, and the value,
\* which is the last column with that lower-case form.
TemLower(colunas, l) == \E k \in DOMAIN colunas : NomeLower(colunas[k]) = l

PorLower(colunas, l) ==
    colunas[CHOOSE k \in DOMAIN colunas :
               /\ NomeLower(colunas[k]) = l
               /\ \A j \in DOMAIN colunas : j > k => NomeLower(colunas[j]) # l]

\* df.rename(columns={de: para})
Renomeadas(colunas, de, para) ==
    [k \in DOMAIN colunas |-> IF colunas[k] = de THEN para ELSE colunas[k]]

\* df[nome] = valores: an existing column is overwritten, a new one is
\* added at the end.
Atribuir(df, nome, valores) ==
    IF Posicoes(df.colunas, nome) # {}
    THEN [df EXCEPT !.linhas =
            [i \in DOMAIN df.linhas |->
                [k \in DOMAIN df.colunas |->
                    IF df.colunas[k] = nome THEN valores[i] ELSE df.linhas[i][k]]]]
    ELSE [colunas |-> Append(df.colunas, nome),
          linhas |-> [i \in DOMAIN df.linhas |-> Append(df.linhas[i], valores[i])]]

\* The cells of the (first) column of that name.
Coluna(df, nome) ==
    LET k == CHOOSE j \in Posicoes(df.colunas, nome) :
                 \A m \in Posicoes(df.colunas, nome) : j <= m
    IN [i \in DOMAIN df.linhas |-> df.linhas[i][k]]

\* The positions of a sequence that a predicate on the index keeps.
RECURSIVE Manter(_, _)
Manter(seq, I) ==
    IF Len(seq) = 0 THEN <<>>
    ELSE LET antes == Manter(SubSeq(seq, 1, Len(seq) - 1), I)
         IN IF Len(seq) \in I THEN Append(antes, seq[Len(seq)]) ELSE antes

\* df[lista]: every column of each listed name, in list order.
RECURSIVE PosicoesDe(_, _)
PosicoesDe(colunas, lista) ==
    IF Len(lista) = 0 THEN <<>>
    ELSE LET I == Posicoes(colunas, Head(lista))
         IN Manter([k \in DOMAIN colunas |-> k], I) \o PosicoesDe(colunas, Tail(lista))

Selecionar(df, lista) ==
    LET ps == PosicoesDe(df.colunas, lista)
    IN [colunas |-> [k \in DOMAIN ps |-> df.colunas[ps[k]]],
        linhas |-> [i \in DOMAIN df.linhas |-> [k \in DOMAIN ps |-> df.linhas[i][ps[k]]]]]

\* df.empty: no row or no column.
Empty(df) == Len(df.linhas) = 0 \/ Len(df.colunas) = 0

\* _find_and_rename_result_column, lines 66-71: the first fallback name
\* that some column matches, in list order.
RECURSIVE PrimeiroFallback(_, _)
PrimeiroFallback(colunas, fallback_cols) ==
    IF Len(fallback_cols) = 0 THEN SemColuna
    ELSE IF TemLower(colunas, NomeLower(Head(fallback_cols)))
    THEN PorLower(colunas, NomeLower(Head(fallback_cols)))
    ELSE PrimeiroFallback(colunas, Tail(fallback_cols))

RECURSIVE UltimoFallback(_, _)
UltimoFallback(colunas, fallback_cols) ==
    IF Len(fallback_cols) = 0 THEN SemColuna
    ELSE LET n == Len(fallback_cols)
         IN IF TemLower(colunas, NomeLower(fallback_cols[n]))
            THEN PorLower(colunas, NomeLower(fallback_cols[n]))
            ELSE UltimoFallback(colunas, SubSeq(fallback_cols, 1, n - 1))

OriginalColNameFallbackAntes(colunas, primary_col, fallback_cols) ==
    IF PrimeiroFallback(colunas, fallback_cols) # SemColuna
    THEN PrimeiroFallback(colunas, fallback_cols)
    ELSE IF TemLower(colunas, NomeLower(primary_col))
    THEN PorLower(colunas, NomeLower(primary_col))
    ELSE SemColuna

OriginalColNameUltimoFallback(colunas, primary_col, fallback_cols) ==
    IF TemLower(colunas, NomeLower(primary_col))
    THEN PorLower(colunas, NomeLower(primary_col))
    ELSE UltimoFallback(colunas, fallback_cols)

\* Lines 59-71: original_col_name.
OriginalColName(colunas, primary_col, fallback_cols) ==
    IF TemLower(colunas, NomeLower(primary_col))
    THEN PorLower(colunas, NomeLower(primary_col))
    ELSE PrimeiroFallback(colunas, fallback_cols)

\* f'{target_col}_Original_Debug' for the canonical result column.
DebugCol == "Resultado_Valor_Original_Debug"

\* Series.astype(str) on a column.
ComoTexto(celulas) == [i \in DOMAIN celulas |-> Texto(AsTypeStr(celulas[i]))]

\* _find_and_rename_result_column (lines 36-83): [erro, df, nome].  Taking
\* df[original] of a name that two columns carry gives a table, and
\* assigning a table to one column raises ValueError.
FindAndRenameResultColumn(df, primary_col, fallback_cols, target_col) ==
    LET original == OriginalColName(df.colunas, primary_col, fallback_cols)
        cols_list == <<primary_col>> \o fallback_cols
    IN IF original = SemColuna
       THEN \* lines 81-83: the names tried and the columns present are
            \* logged; the message of the exception is built from cols_list.
            [erro |-> "ValueError", df |-> df, nome |-> SemColuna,
             args |-> [cols_list |-> cols_list],
             log |-> [cols_list |-> cols_list, columns |-> df.colunas]]
       ELSE IF Cardinality(Posicoes(df.colunas, original)) > 1
       THEN [erro |-> "ValueError", df |-> df, nome |-> SemColuna]
       ELSE LET com_debug == Atribuir(df, DebugCol, ComoTexto(Coluna(df, original)))
            IN [erro |-> SemErro,
                df |-> [com_debug EXCEPT
                           !.colunas = Renomeadas(com_debug.colunas, original, target_col)],
                nome |-> original]

\* time_mapping[k] = v on a dict kept in insertion order.
DictSet(d, k, v) ==
    IF \E i \in DOMAIN d : d[i].k = k
    THEN [i \in DOMAIN d |-> IF d[i].k = k THEN [k |-> k, v |-> v] ELSE d[i]]
    ELSE Append(d, [k |-> k, v |-> v])

\* _parse_datetime_columns, lines 216-218 and 219-221: one of the two loops.
RECURSIVE MapearTempo(_, _, _, _)
MapearTempo(d, colunas, potenciais, papel) ==
    IF Len(potenciais) = 0 THEN d
    ELSE LET l == NomeLower(Head(potenciais))
             d2 == IF TemLower(colunas, l) THEN DictSet(d, PorLower(colunas, l), papel)
                   ELSE d
         IN MapearTempo(d2, colunas, Tail(potenciais), papel)

\* Lines 214-221: time_mapping.
TimeMapping(colunas, ct) ==
    MapearTempo(MapearTempo(<<>>, colunas, ct.open, "Abertura"),
                colunas, ct.close, "Fechamento")

\* Lines 226-229: the guard of the mapping conflict.
ConflitoDeMapeamento(time_mapping) ==
    LET abertura_orig == SelectSeq(time_mapping, LAMBDA e : e.v = "Abertura")
        fechamento_orig == SelectSeq(time_mapping, LAMBDA e : e.v = "Fechamento")
    IN /\ Len(abertura_orig) > 0
       /\ Len(fechamento_orig) > 0
       /\ abertura_orig[1].k = fechamento_orig[1].k

\* Line 234: df.rename(columns=time_mapping).
RenomearTempo(colunas, time_mapping) ==
    [k \in DOMAIN colunas |->
        IF \E i \in DOMAIN time_mapping : time_mapping[i].k = colunas[k]
        THEN time_mapping[CHOOSE i \in DOMAIN time_mapping :
                             time_mapping[i].k = colunas[k]].v
        ELSE colunas[k]]

\* Lines 238-248: the copy of the column as text, when the column exists.
ComOriginal(df, col, col_original) ==
    IF Posicoes(df.colunas, col) = {} THEN df
    ELSE Atribuir(df, col_original, ComoTexto(Coluna(df, col)))

\* _parse_datetime_columns (lines 199-277): [erro, df].  When two columns
\* end up named 'Abertura' (or 'Fechamento'), df[col] is a table and the
\* assignment of line 239 (245) raises ValueError.
ParseDatetimeColumns(df, ct) ==
    LET time_mapping == TimeMapping(df.colunas, ct)
        renomeado == [df EXCEPT !.colunas = RenomearTempo(df.colunas, time_mapping)]
    IN IF Len(time_mapping) > 0 /\ ConflitoDeMapeamento(time_mapping)
       THEN [erro |-> "ValueError", df |-> df]
       ELSE IF \E c \in {"Abertura", "Fechamento"} :
                   Cardinality(Posicoes(renomeado.colunas, c)) > 1
       THEN [erro |-> "ValueError", df |-> df]
       ELSE [erro |-> SemErro,
             df |-> ComOriginal(ComOriginal(renomeado, "Abertura", "Abertura_Original"),
                                "Fechamento", "Fechamento_Original")]

\* Lines 356-365 and 536-545: the rows whose original result is not null.
RemoverNulosOriginais(df) ==
    IF Posicoes(df.colunas, DebugCol) = {} THEN df
    ELSE LET debug == Coluna(df, DebugCol)
         IN [df EXCEPT !.linhas =
                Manter(df.linhas,
                       {i \in DOMAIN df.linhas :
                           ~OriginalNanMask([Resultado_Valor_Original_Debug |-> debug[i]])})]

\* Lines 377 and 557: the result column through _clean_numeric_result_column.
LimparResultado(df) ==
    LET celulas == Coluna(df, RESULT_COLUMN_NAME)
        limpo == CleanNumericResultColumn(
                     [i \in DOMAIN celulas |-> [Resultado_Valor |-> celulas[i]]])
    IN Atribuir(df, RESULT_COLUMN_NAME,
                [i \in DOMAIN celulas |-> limpo.linhas[i].Resultado_Valor])

\* Lines 383-385: drop(columns=[debug_col_name]).
SemColunaDebug(df) ==
    Selecionar(df, SelectSeq(df.colunas, LAMBDA c : c # DebugCol))

colunas_essenciais == <<"Abertura", "Fechamento", ROBO_COLUMN_NAME, RESULT_COLUMN_NAME>>
colunas_debug == <<"Abertura_Original", "Fechamento_Original">>

EmSeq(seq, x) == \E i \in DOMAIN seq : seq[i] = x

\* Lines 412-420 and 560-568: essential columns, the others, the debug
\* columns, each only if present.
ColunasFinais(df) ==
    LET outras_colunas == SelectSeq(df.colunas,
                              LAMBDA c : ~EmSeq(colunas_essenciais, c)
                                            /\ ~EmSeq(colunas_debug, c))
        colunas_finais == colunas_essenciais \o outras_colunas \o colunas_debug
    IN Selecionar(df, SelectSeq(colunas_finais, LAMBDA c : EmSeq(df.colunas, c)))

\* Lines 390-404: the first column named 'Robo' in any case, else none.
ActualRoboCol(colunas) ==
    IF \E k \in DOMAIN colunas : NomeLower(colunas[k]) = NomeLower(ROBO_COLUMN_NAME)
    THEN colunas[CHOOSE k \in DOMAIN colunas :
                    /\ NomeLower(colunas[k]) = NomeLower(ROBO_COLUMN_NAME)
                    /\ \A j \in 1 .. (k - 1) :
                          NomeLower(colunas[j]) # NomeLower(ROBO_COLUMN_NAME)]
    ELSE SemColuna

Constante(df, cel) == [i \in DOMAIN df.linhas |-> cel]

\* A cell that holds a name, the name kept as one unit of text.
TextoDe(nome) == Texto(<<nome>>)

\* Line 400: the placeholder entity.
ExcelData == TextoDe("Excel_Data")

\* Lines 388-404: the entity column of the single-table variant.
GarantirRobo(df) ==
    LET actual_robo_col == ActualRoboCol(df.colunas)
    IN IF actual_robo_col = SemColuna
       THEN Atribuir(df, ROBO_COLUMN_NAME, Constante(df, ExcelData))
       ELSE IF actual_robo_col # ROBO_COLUMN_NAME
       THEN [df EXCEPT !.colunas = Renomeadas(df.colunas, actual_robo_col, ROBO_COLUMN_NAME)]
       ELSE df

----------------------------------------------------------------------------
(* processar_dados_excel and processar_dados_csv on whole sources, and the *)
(* request handler's checks on what they return                            *)

MaxColunas == 3           \* headers of a sampled source
MaxLinhasFonte == 2       \* rows of a sampled source
MaxFontes == 2            \* sources of a sampled batch

\* "Data" is a recognized name only when config.py lists it for both roles.
CabecalhosAmostra ==
    {"Abertura", "Open Time", "Fechamento", "fechamento", "Res. Operação (%)",
     "Resultado", "Profit", "profit", " Profit", "Robo", "robo", "Data"}

\* The readers never produce two columns of the same name.
RECURSIVE SeqsInjetivas(_, _)
SeqsInjetivas(S, n) ==
    IF n = 0 THEN {<<>>}
    ELSE LET menores == SeqsInjetivas(S, n - 1)
         IN menores \cup
              UNION {{Append(s, x) : x \in {y \in S : ~EmSeq(s, y)}} :
                     s \in {t \in menores : Len(t) = n - 1}}

LinhaCheia(colunas, t) == [k \in DOMAIN colunas |-> Texto(<<t>>)]
LinhaSem(colunas, p) ==
    [k \in DOMAIN colunas |-> IF k = p THEN CelulaNaN ELSE Texto(<<"1">>)]

LinhasPara(colunas) ==
    {LinhaCheia(colunas, "1"), LinhaCheia(colunas, "2")}
      \cup {LinhaSem(colunas, p) : p \in DOMAIN colunas}

Fonte(filename, leitura, colunas, linhas) ==
    [filename |-> filename, leitura |-> leitura, colunas |-> colunas, linhas |-> linhas]

CabecalhosCsv == <<"Abertura", "Fechamento", "Profit">>
CabecalhosExcel == <<"Open Time", "Close Time", "Resultado", "Robo">>

FontesAmostra ==
    {Fonte("RoboA.csv", "ok", cs, <<LinhaCheia(cs, "1")>>) :
        cs \in {c \in SeqsInjetivas(CabecalhosAmostra, MaxColunas) : Len(c) > 0}}
      \cup {Fonte("RoboA.csv", "ok", <<"Abertura", "Fechamento">>, <<>>)}
      \cup UNION {{Fonte("RoboA.csv", "ok", cs, ls) :
                      ls \in SeqsAte(LinhasPara(cs), MaxLinhasFonte)} :
                  cs \in {CabecalhosCsv, CabecalhosExcel}}
      \cup {Fonte("RoboA.csv", l, <<>>, <<>>) : l \in {"EmptyDataError", "Exception"}}

FontesLote ==
    {Fonte("RoboA.csv", "ok", CabecalhosCsv,
           <<LinhaCheia(CabecalhosCsv, "1"), LinhaCheia(CabecalhosCsv, "2")>>),
     Fonte("Robo B.csv", "ok", CabecalhosCsv, <<LinhaCheia(CabecalhosCsv, "2")>>),
     Fonte("RoboC.v2.csv", "ok", CabecalhosExcel,
           <<LinhaSem(CabecalhosExcel, 3), LinhaCheia(CabecalhosExcel, "1")>>),
     Fonte("RoboA.csv", "ok", CabecalhosCsv, <<LinhaSem(CabecalhosCsv, 3)>>),
     Fonte("RoboA.csv", "ok", CabecalhosCsv, <<>>),
     Fonte("RoboA.csv", "EmptyDataError", <<>>, <<>>),
     Fonte("Robo B.csv", "Exception", <<>>, <<>>),
     Fonte("RoboA.csv", "ok", <<"Abertura", "Profit">>,
           <<LinhaCheia(<<"Abertura", "Profit">>, "1")>>),
     Fonte("RoboA.csv", "ok", <<"Abertura", "Open Time", "Fechamento", "Profit">>,
           <<LinhaCheia(<<"Abertura", "Open Time", "Fechamento", "Profit">>, "1")>>)}

ColunasTempoAmostra ==
    {[open |-> OPEN_TIME_COLUMNS, close |-> CLOSE_TIME_COLUMNS],
     [open |-> OPEN_TIME_COLUMNS \o <<"Data">>, close |-> CLOSE_TIME_COLUMNS \o <<"Data">>]}

InitFontes ==
    /\ DemaisParados
    /\ \/ /\ upload_type = "single"
          /\ \E f \in FontesAmostra : files = <<f>>
       \/ /\ upload_type = "multiple"
          /\ \/ \E f \in FontesAmostra : files = <<f>>
             \/ files \in {l \in SeqsAte(FontesLote, MaxFontes) : Len(l) >= 2}
    /\ colunas_tempo \in ColunasTempoAmostra
    /\ file_index = 1
    /\ banco_geral = DataFrameVazio
    /\ dfs = <<>>
    /\ failed_files = <<>>
    /\ retorno_ingestor = [df |-> DataFrameVazio, nome |-> SemColuna]
    /\ erro_fonte = SemErro
    /\ pcf = "inicio"
    /\ IntervaloParado
    /\ GraficoParado
    /\ IngestaoParada
    /\ ConsolidadoParado
    /\ PorRoboParado

OutrosParados == UNCHANGED <<varsIntervalo, varsGrafico, varsIngestao, varsConsolidado,
                             varsPorRobo, varsDemais>>

\* The ingestor raises.
Levantar(e) ==
    /\ erro_fonte' = e
    /\ pcf' = "erro"
    /\ UNCHANGED <<banco_geral, retorno_ingestor>>

\* The ingestor returns.
Devolver(df, nome) ==
    /\ retorno_ingestor' = [df |-> df, nome |-> nome]
    /\ pcf' = "retornado"
    /\ UNCHANGED <<banco_geral, erro_fonte>>

\* The single-table variant moves on with a new working table.
Seguir(df, proximo) ==
    /\ banco_geral' = df
    /\ pcf' = proximo
    /\ UNCHANGED <<retorno_ingestor, erro_fonte>>

\* processar_dados_excel, lines 307-340: the read, the empty table, the
\* time columns.
ExcelLer ==
    /\ upload_type = "single"
    /\ pcf = "inicio"
    /\ LET file == files[1]
           lido == [colunas |-> file.colunas, linhas |-> file.linhas]
           d == ParseDatetimeColumns(lido, colunas_tempo)
       IN IF file.leitura # "ok" THEN Levantar("ValueError")
          ELSE IF Empty(lido) THEN Devolver(DataFrameVazio, SemColuna)
          ELSE IF d.erro # SemErro THEN Levantar(d.erro)
          ELSE Seguir(d.df, "resultado")
    /\ UNCHANGED <<upload_type, files, colunas_tempo, file_index, dfs, failed_files>>
    /\ OutrosParados

\* Lines 342-352: the result column.
ExcelResultado ==
    /\ upload_type = "single"
    /\ pcf = "resultado"
    /\ LET r == FindAndRenameResultColumn(banco_geral, PRIMARY_RESULT_COLUMN_EXCEL,
                                          FALLBACK_RESULT_COLUMNS_EXCEL, RESULT_COLUMN_NAME)
       IN IF r.erro # SemErro THEN Levantar("ValueError")
          ELSE /\ banco_geral' = r.df
               /\ retorno_ingestor' = [retorno_ingestor EXCEPT !.nome = r.nome]
               /\ pcf' = "nulos"
               /\ UNCHANGED erro_fonte
    /\ UNCHANGED <<upload_type, files, colunas_tempo, file_index, dfs, failed_files>>
    /\ OutrosParados

\* Lines 354-372: the null-result drop and the return of an empty table.
ExcelNulos ==
    /\ upload_type = "single"
    /\ pcf = "nulos"
    /\ LET sem_nulos == RemoverNulosOriginais(banco_geral)
       IN IF Empty(sem_nulos) THEN Devolver(DataFrameVazio, retorno_ingestor.nome)
          ELSE Seguir(sem_nulos, "limpar")
    /\ UNCHANGED <<upload_type, files, colunas_tempo, file_index, dfs, failed_files>>
    /\ OutrosParados

\* Lines 374-423: normalization, the entity column, the final columns.
ExcelFinal ==
    /\ upload_type = "single"
    /\ pcf = "limpar"
    /\ Devolver(ColunasFinais(GarantirRobo(SemColunaDebug(LimparResultado(banco_geral)))),
                retorno_ingestor.nome)
    /\ UNCHANGED <<upload_type, files, colunas_tempo, file_index, dfs, failed_files>>
    /\ OutrosParados

Falha(filename, motivo) == [filename |-> filename, motivo |-> motivo]

\* processar_dados_csv, lines 459-590: one source, from the read to the
\* final columns.  motivo is SemErro when the source succeeds.
ProcessarArquivoCsv(file, ct) ==
    LET filename == SanitizeFilename(file.filename)
        lido == [colunas |-> file.colunas, linhas |-> file.linhas]
        sem_espacos == [lido EXCEPT !.colunas =
                           [k \in DOMAIN lido.colunas |-> NomeStrip(lido.colunas[k])]]
        robo_name == SplitextRaiz(filename)
        com_robo == Atribuir(sem_espacos, ROBO_COLUMN_NAME,
                             Constante(sem_espacos, TextoDe(robo_name)))
        d == ParseDatetimeColumns(com_robo, ct)
        r == FindAndRenameResultColumn(d.df, PRIMARY_RESULT_COLUMN_CSV,
                                       FALLBACK_RESULT_COLUMNS_CSV, RESULT_COLUMN_NAME)
        sem_nulos == RemoverNulosOriginais(r.df)
        df_final == ColunasFinais(LimparResultado(sem_nulos))
        falhou(motivo) == [motivo |-> motivo, df |-> DataFrameVazio, nome |-> SemColuna,
                           filename |-> filename]
    IN IF file.leitura = "EmptyDataError" THEN falhou("EmptyDataError")
       ELSE IF file.leitura # "ok" THEN falhou("Erro inesperado")
       ELSE IF Empty(lido) THEN falhou("Vazio")
       ELSE IF d.erro # SemErro THEN falhou(d.erro)
       ELSE IF r.erro # SemErro THEN falhou(r.erro)
       ELSE IF Empty(sem_nulos) THEN falhou("Sem resultados válidos")
       ELSE IF \E k \in DOMAIN colunas_essenciais :
                   ~EmSeq(df_final.colunas, colunas_essenciais[k])
       THEN falhou("Colunas essenciais ausentes")
       ELSE [motivo |-> SemErro, df |-> df_final, nome |-> r.nome, filename |-> filename]

\* pd.concat(dfs, ignore_index=True): the union of the columns in order of
\* first appearance, the rows in order, a missing cell where a table has
\* no such column.
RECURSIVE Concat(_)
Concat(tabelas) ==
    IF Len(tabelas) = 0 THEN DataFrameVazio
    ELSE LET antes == Concat(SubSeq(tabelas, 1, Len(tabelas) - 1))
             t == tabelas[Len(tabelas)]
             colunas == antes.colunas \o SelectSeq(t.colunas,
                                                  LAMBDA c : ~EmSeq(antes.colunas, c))
             Alinhada(df, linha) ==
                 [k \in DOMAIN colunas |->
                     IF EmSeq(df.colunas, colunas[k])
                     THEN linha[CHOOSE p \in DOMAIN df.colunas :
                                   /\ df.colunas[p] = colunas[k]
                                   /\ \A q \in 1 .. (p - 1) : df.colunas[q] # colunas[k]]
                     ELSE CelulaNaN]
         IN [colunas |-> colunas,
             linhas |-> [i \in DOMAIN antes.linhas |-> Alinhada(antes, antes.linhas[i])]
                          \o [i \in DOMAIN t.linhas |-> Alinhada(t, t.linhas[i])]]

CsvArquivoAborta ==
    /\ upload_type = "multiple"
    /\ pcf = "inicio"
    /\ file_index <= Len(files)
    /\ LET p == ProcessarArquivoCsv(files[file_index], colunas_tempo)
       IN IF p.motivo = SemErro
          THEN /\ dfs' = Append(dfs, p.df)
               /\ file_index' = file_index + 1
               /\ UNCHANGED failed_files
          ELSE /\ failed_files' = Append(failed_files, Falha(p.filename, p.motivo))
               /\ file_index' = Len(files) + 1
               /\ UNCHANGED dfs
    /\ UNCHANGED <<upload_type, files, colunas_tempo, banco_geral, retorno_ingestor,
                   erro_fonte, pcf>>
    /\ OutrosParados

\* Lines 458-590: one iteration of the loop over the sources.
CsvArquivo ==
    /\ upload_type = "multiple"
    /\ pcf = "inicio"
    /\ file_index <= Len(files)
    /\ LET p == ProcessarArquivoCsv(files[file_index], colunas_tempo)
       IN IF p.motivo = SemErro
          THEN /\ dfs' = Append(dfs, p.df)
               /\ processed_files_count' = processed_files_count + 1
               /\ retorno_ingestor' =
                     IF retorno_ingestor.nome = SemColuna
                     THEN [retorno_ingestor EXCEPT !.nome = p.nome]
                     ELSE retorno_ingestor
               /\ UNCHANGED failed_files
          ELSE /\ failed_files' = Append(failed_files, Falha(p.filename, p.motivo))
               /\ UNCHANGED <<dfs, retorno_ingestor, processed_files_count>>
    /\ file_index' = file_index + 1
    /\ UNCHANGED <<upload_type, files, colunas_tempo, banco_geral, erro_fonte, pcf>>
    /\ UNCHANGED <<varsIntervalo, varsGrafico, varsIngestao, varsConsolidado, varsPorRobo,
                   varsFuncoes, varsContagens, varsPedidos>>

\* Lines 592-612: the batch fails when no source succeeded, else the
\* concatenation is returned.
CsvConsolidar ==
    /\ upload_type = "multiple"
    /\ pcf = "inicio"
    /\ file_index > Len(files)
    /\ LET banco == Concat(dfs)
       IN IF Len(dfs) = 0 THEN Levantar("ValueError")
          ELSE IF ~EmSeq(banco.colunas, RESULT_COLUMN_NAME) THEN Levantar("ValueError")
          ELSE Devolver(banco, retorno_ingestor.nome)
    /\ UNCHANGED <<upload_type, files, colunas_tempo, file_index, dfs, failed_files>>
    /\ OutrosParados

\* app.py, lines 131-135 and 168-172: the ValueError of the ingestor is
\* reported and the request ends.
TratarErro ==
    /\ pcf = "erro"
    /\ pcf' = "redirecionado"
    /\ UNCHANGED <<upload_type, files, colunas_tempo, file_index, banco_geral, dfs,
                   failed_files, retorno_ingestor, erro_fonte>>
    /\ OutrosParados

VerificacaoPosLeituraSemRecusa ==
    /\ pcf = "retornado"
    /\ pcf' = "consolidar"
    /\ UNCHANGED <<upload_type, files, colunas_tempo, file_index, banco_geral, dfs,
                   failed_files, retorno_ingestor, erro_fonte>>
    /\ OutrosParados

\* app.py, lines 180-189: an empty table is reported as an error, any other
\* goes on to processar_dados_consolidados.
VerificacaoPosLeitura ==
    /\ pcf = "retornado"
    /\ pcf' = IF Empty(retorno_ingestor.df) THEN "redirecionado" ELSE "consolidar"
    /\ UNCHANGED <<upload_type, files, colunas_tempo, file_index, banco_geral, dfs,
                   failed_files, retorno_ingestor, erro_fonte>>
    /\ OutrosParados

NextFontes ==
    \/ ExcelLer \/ ExcelResultado \/ ExcelNulos \/ ExcelFinal
    \/ CsvArquivo \/ CsvConsolidar
    \/ TratarErro \/ VerificacaoPosLeitura

SpecFontes == InitFontes /\ [][NextFontes]_vars

----------------------------------------------------------------------------
(* processar_dados_consolidados on whole datasets, followed by             *)
(* gerar_grafico_ganhos_por_minuto and gerar_graficos_por_robo, in the     *)
(* order of the request handler (app.py, lines 189-231).  A time cell is   *)
(* NaT or a timestamp with hour, minute and second; the date plays no      *)
(* part in what is modelled.                                               *)

MaxLinhasConsolidado == 2     \* rows of a sampled dataset

NaT == [tipo |-> "nat"]
Timestamp(h, m, s) == [tipo |-> "ts", hora |-> h, minuto |-> m, segundo |-> s]

\* Series.notna() on one cell.
Notna(cel) == cel.tipo # "nat"

\* pd.to_datetime(..., errors='coerce') on a cell of a column that the
\* ingestor has already converted (data_processor.py, lines 251-275).
ToDatetime(cel) == IF cel.tipo = "ts" THEN cel ELSE NaT

\* utils.py, lines 228-241.
VerificarOperacaoSemHorario(timestamp) ==
    IF ~Notna(timestamp) THEN FALSE
    ELSE timestamp.hora = 0 /\ timestamp.minuto = 0 /\ timestamp.segundo = 0

\* df[nome] = valor on one row.
ComCampo(r, nome, valor) ==
    [f \in (DOMAIN r) \cup {nome} |-> IF f = nome THEN valor ELSE r[f]]

\* groupby(ROBO_COLUMN_NAME)[result_col].sum(): null keys form no group.
GroupbyRoboSum(linhas) ==
    [robo \in {linhas[i].Robo : i \in DOMAIN linhas} \ {RoboNulo} |->
        SomaColuna(SelectSeq(linhas, LAMBDA r : r.Robo = robo))]

\* Lines 678-679 and 690-691: the rows whose open time is valid.
ComAberturaValida(linhas) ==
    SelectSeq([i \in DOMAIN linhas |->
                  [linhas[i] EXCEPT !.Abertura = ToDatetime(@)]],
              LAMBDA r : Notna(r.Abertura))

ComFechamentoQualquer(linhas) == linhas

\* Lines 695-697: the rows whose close time is valid.
ComFechamentoValido(linhas) == SelectSeq(linhas, LAMBDA r : Notna(r.Fechamento))

MetricasBrutasComDataValida(bruto) ==
    [soma_absoluta_total |-> SomaColuna(ComAberturaValida(bruto.linhas)),
     somas_absolutas_por_robo |-> GroupbyRoboSum(ComAberturaValida(bruto.linhas)),
     count_operacoes_total_originais |-> Len(ComAberturaValida(bruto.linhas))]

\* Lines 669-675: the raw metrics.
MetricasBrutas(bruto) ==
    [soma_absoluta_total |-> SomaColuna(bruto.linhas),
     somas_absolutas_por_robo |-> GroupbyRoboSum(bruto.linhas),
     count_operacoes_total_originais |-> Len(bruto.linhas)]

Fechado == Timestamp(19, 30, 0)

LinhaBruta(a, f, r, v) ==
    [Abertura |-> a, Fechamento |-> f, Robo |-> r, Resultado_Valor |-> v]

LinhasBrutasAmostra ==
    {LinhaBruta(Timestamp(10, 0, 0), Fechado, r, v) : r \in RobosAmostra, v \in ValoresGrafico}
      \cup {LinhaBruta(Timestamp(11, 40, 0), Fechado, "RoboA", v) : v \in ValoresGrafico}
      \cup {LinhaBruta(Timestamp(8, 0, 0), Fechado, "RoboB", 2),
            LinhaBruta(Timestamp(7, 59, 59), Fechado, "RoboA", 2),
            LinhaBruta(Timestamp(18, 59, 0), Fechado, "RoboA", 2),
            LinhaBruta(Timestamp(19, 0, 0), Fechado, "RoboB", 2)}
      \cup {LinhaBruta(Timestamp(0, 0, 0), Fechado, "RoboA", 2),
            LinhaBruta(Timestamp(0, 0, 30), Fechado, "RoboB", 2)}
      \cup {LinhaBruta(NaT, Fechado, "RoboA", 2),
            LinhaBruta(Timestamp(10, 0, 0), NaT, "RoboB", 2),
            LinhaBruta(NaT, NaT, "RoboA", -1)}
      \cup {LinhaBruta(Timestamp(10, 0, 0), Fechado, RoboNulo, 2)}

ColunasCanonicas == {"Abertura", "Fechamento", "Robo", "Resultado_Valor"}

\* The datasets handed to the consolidator: canonical tables, and the table
\* that the single-table ingestor returns for a source without time headers.
EntradasConsolidado ==
    {[colunas |-> ColunasCanonicas, linhas |-> ls] :
        ls \in SeqsAte(LinhasBrutasAmostra, MaxLinhasConsolidado)}
      \cup {[colunas |-> {"Robo", "Resultado_Valor"},
             linhas |-> <<[Robo |-> "RoboA", Resultado_Valor |-> 2]>>],
            [colunas |-> {"Abertura", "Robo", "Resultado_Valor"},
             linhas |-> <<[Abertura |-> Timestamp(10, 0, 0), Robo |-> "RoboA",
                           Resultado_Valor |-> 2]>>]}

SemTabela == [colunas |-> {}, linhas |-> <<>>]

InitConsolidado ==
    /\ DemaisParados
    /\ banco_geral_bruto \in EntradasConsolidado
    /\ soma_absoluta_total = 0
    /\ somas_absolutas_por_robo = <<>>
    /\ count_operacoes_total_originais = 0
    /\ banco_geral_com_data = SemTabela
    /\ banco_geral_final = SemTabela
    /\ erro_consolidado = SemErro
    /\ pcc = "inicio"
    /\ robos_unicos = <<>>
    /\ soma_melhores_ganhos_individuais_8_18 = 0
    /\ pcr = "espera"
    /\ GraficoParado
    /\ IntervaloParado
    /\ IngestaoParada
    /\ FontesParadas

\* processar_dados_consolidados raises.
LevantarConsolidado(e) ==
    /\ erro_consolidado' = e
    /\ pcc' = "erro"
    /\ UNCHANGED <<banco_com_hora, pcg, varsContagens>>

\* Lines 678-683: the rows of the raw table whose open time converts and is
\* not midnight, whatever their close time.
CountComHoraOriginal(linhas) ==
    Len(SelectSeq([i \in DOMAIN linhas |-> ToDatetime(linhas[i].Abertura)],
                  LAMBDA a : Notna(a) /\ ~VerificarOperacaoSemHorario(a)))

\* Lines 653-713: the guards, the raw metrics, the two drops and the rows
\* with a specific open time.  The window filter of lines 724-741 follows
\* as FiltrarJanela.
ConsolidarDatas ==
    /\ pcc = "inicio"
    /\ LET bruto == banco_geral_bruto
           falta(c) == c \notin bruto.colunas
       IN IF Len(bruto.linhas) = 0 \/ bruto.colunas = {}
          THEN /\ LevantarConsolidado("ValueError")
               /\ UNCHANGED <<soma_absoluta_total, somas_absolutas_por_robo,
                              count_operacoes_total_originais, banco_geral_com_data,
                              banco_geral_final>>
          ELSE IF \/ falta(RESULT_COLUMN_NAME)
                  \/ falta("Abertura") \/ falta("Fechamento")
                  \/ falta(ROBO_COLUMN_NAME)
          THEN /\ LevantarConsolidado("KeyError")
               /\ UNCHANGED <<soma_absoluta_total, somas_absolutas_por_robo,
                              count_operacoes_total_originais, banco_geral_com_data,
                              banco_geral_final>>
          ELSE LET metricas == MetricasBrutas(bruto)
                   com_data == ComAberturaValida(bruto.linhas)
                   convertido == [i \in DOMAIN com_data |->
                                     [com_data[i] EXCEPT !.Fechamento = ToDatetime(@)]]
                   final == ComFechamentoValido(convertido)
                   com_sem_hora ==
                       [i \in DOMAIN final |->
                           ComCampo(final[i], "Sem_Hora",
                                    VerificarOperacaoSemHorario(final[i].Abertura))]
               IN /\ soma_absoluta_total' = metricas.soma_absoluta_total
                  /\ somas_absolutas_por_robo' = metricas.somas_absolutas_por_robo
                  /\ count_operacoes_total_originais' =
                        metricas.count_operacoes_total_originais
                  /\ banco_geral_com_data' =
                        [colunas |-> bruto.colunas, linhas |-> convertido]
                  /\ IF Len(final) = 0
                     THEN /\ banco_geral_final' =
                                [colunas |-> bruto.colunas, linhas |-> final]
                          /\ LevantarConsolidado("ValueError")
                     ELSE /\ banco_geral_final' =
                                [colunas |-> bruto.colunas \cup {"Sem_Hora"},
                                 linhas |-> com_sem_hora]
                          /\ banco_com_hora' =
                                SelectSeq(com_sem_hora, LAMBDA r : ~r.Sem_Hora)
                          /\ count_sem_horario_especifico_display' =
                                metricas.count_operacoes_total_originais
                                   - CountComHoraOriginal(bruto.linhas)
                          /\ count_operacoes_com_hora' = Len(banco_com_hora')
                          /\ pcc' = "janela"
                          /\ pcg' = "consolidar"
                          /\ UNCHANGED erro_consolidado
    /\ UNCHANGED <<banco_geral_bruto, banco_filtrado_8_18, melhor_intervalo_geral,
                   melhores_intervalos_robos_list, robos_unicos_8_18, todos_minutos>>
    /\ UNCHANGED <<varsIntervalo, varsIngestao, varsFontes, varsPorRobo, varsFuncoes,
                   varsLote, varsPedidos>>

\* The entity names in sorted order.
RobosOrdenados == <<"RoboA", "RoboB">>

\* sorted(...unique()) on the entity column (chart_generator.py, line 815):
\* a null next to a name cannot be ordered.
PodeOrdenar(nomes) == ~(RoboNulo \in nomes /\ nomes # {RoboNulo})

Sorted(nomes) ==
    IF nomes = {RoboNulo} THEN <<RoboNulo>>
    ELSE SelectSeq(RobosOrdenados, LAMBDA r : r \in nomes)

\* gerar_graficos_por_robo, lines 807-816.
PorRoboInicio ==
    /\ pcr = "espera"
    /\ pcg = "fim"
    /\ soma_melhores_ganhos_individuais_8_18' = 0
    /\ LET nomes == {banco_geral_com_data.linhas[i].Robo :
                        i \in DOMAIN banco_geral_com_data.linhas}
       IN IF ROBO_COLUMN_NAME \notin banco_geral_com_data.colunas
          THEN robos_unicos' = <<>> /\ pcr' = "retornado"
          ELSE IF ~PodeOrdenar(nomes)
          THEN robos_unicos' = <<>> /\ pcr' = "erro"
          ELSE robos_unicos' = Sorted(nomes) /\ pcr' = "robos"
    /\ UNCHANGED <<varsIntervalo, varsGrafico, varsIngestao, varsFontes, varsConsolidado, varsDemais>>

DfRoboFiltradoTudo(robo_name) == banco_filtrado_8_18

\* Lines 823-825: the rows of one entity in the window-filtered view.
DfRoboFiltrado8a18(robo_name) ==
    IF ROBO_COLUMN_NAME \in banco_filtrado_8_18.colunas
    THEN DoRobo(banco_filtrado_8_18, robo_name)
    ELSE SemTabela

\* Lines 818-852: one iteration of the loop over the entities.
PorRoboLaco ==
    /\ pcr = "robos"
    /\ Len(robos_unicos) > 0
    /\ LET robo_name == Head(robos_unicos)
           df_robo_full_com_data == DoRobo(banco_geral_com_data, robo_name)
           r == CalcularMelhorIntervalo(DfRoboFiltrado8a18(robo_name),
                                        MinMinutoPadrao, MaxMinutoPadrao)
       IN soma_melhores_ganhos_individuais_8_18' =
              IF Vazio(df_robo_full_com_data) \/ r.inicio = None
              THEN soma_melhores_ganhos_individuais_8_18
              ELSE soma_melhores_ganhos_individuais_8_18 + r.ganho
    /\ robos_unicos' = Tail(robos_unicos)
    /\ UNCHANGED pcr
    /\ UNCHANGED <<varsIntervalo, varsGrafico, varsIngestao, varsFontes, varsConsolidado, varsDemais>>

\* Lines 963-965: the loop is over and the sum is returned.
PorRoboFim ==
    /\ pcr = "robos"
    /\ Len(robos_unicos) = 0
    /\ pcr' = "retornado"
    /\ UNCHANGED <<robos_unicos, soma_melhores_ganhos_individuais_8_18>>
    /\ UNCHANGED <<varsIntervalo, varsGrafico, varsIngestao, varsFontes, varsConsolidado, varsDemais>>

NextConsolidado ==
    \/ ConsolidarDatas
    \/ FiltrarJanela
    \/ GraficoGeral
    \/ GraficoRobo
    \/ GraficoFim
    \/ PorRoboInicio
    \/ PorRoboLaco
    \/ PorRoboFim

SpecConsolidado == InitConsolidado /\ [][NextConsolidado]_vars

----------------------------------------------------------------------------
(* Reference notions for the optimizer's claims, computed from the rows    *)
(* of the table and not from the pass.                                     *)

\* The rows that have both a minute and a value.
LinhasValidas(df) ==
    IF "Minutos_Dia" \in df.colunas /\ "Resultado_Valor" \in df.colunas
    THEN {i \in DOMAIN df.linhas :
             df.linhas[i].Minutos_Dia # NaN /\ df.linhas[i].Resultado_Valor # NaN}
    ELSE {}

RECURSIVE SomaIndices(_, _)
SomaIndices(linhas, I) ==
    IF I = {} THEN 0
    ELSE LET i == CHOOSE j \in I : TRUE
         IN linhas[i].Resultado_Valor + SomaIndices(linhas, I \ {i})

\* Sum of the values of the rows whose minute lies in a..b.
SomaFaixa(df, a, b) ==
    SomaIndices(df.linhas,
                {i \in LinhasValidas(df) :
                    a <= df.linhas[i].Minutos_Dia /\ df.linhas[i].Minutos_Dia <= b})

Faixas(lo, hi) == {f \in (lo .. hi) \X (lo .. hi) : f[1] <= f[2]}

Maximo(S) == CHOOSE x \in S : \A y \in S : x >= y

MaiorSomaDeFaixa(df, lo, hi) ==
    Maximo({SomaFaixa(df, f[1], f[2]) : f \in Faixas(lo, hi)})

TabelaNaoVazia ==
    /\ ~Vazio(df_intervalo)
    /\ "Minutos_Dia" \in df_intervalo.colunas
    /\ "Resultado_Valor" \in df_intervalo.colunas

\* C1 as stated: the gain is the maximum over all contiguous ranges of the
\* range sum, and is >= 0.
C1_GanhoIgualMaiorFaixa ==
    (pc = "retornado" /\ TabelaNaoVazia) =>
        /\ retorno.ganho = MaiorSomaDeFaixa(df_intervalo, min_minuto, max_minuto)
        /\ retorno.ganho >= 0

\* C1 amended: the gain is the larger of 0 (the empty interval) and the
\* maximum over all contiguous ranges of the range sum, and is >= 0.
C1_GanhoIgualMaiorFaixaOuZero ==
    (pc = "retornado" /\ TabelaNaoVazia) =>
        /\ retorno.ganho =
             Maximo({0, MaiorSomaDeFaixa(df_intervalo, min_minuto, max_minuto)})
        /\ retorno.ganho >= 0

C1_Witness ==
    /\ pc = "retornado"
    /\ TabelaNaoVazia
    /\ retorno.ganho = 3
    /\ retorno.inicio > min_minuto
    /\ \E i \in LinhasValidas(df_intervalo) : df_intervalo.linhas[i].Resultado_Valor < 0

\* C2: gain >= 0; start and end are null together, exactly when the gain is
\* 0 and no range has a strictly positive sum; all sums <= 0 gives
\* (null, null, 0).
C2_NulosSseSemGanho ==
    pc = "retornado" =>
        /\ retorno.ganho >= 0
        /\ (retorno.inicio = None) <=> (retorno.fim = None)
        /\ (retorno.inicio = None /\ retorno.fim = None) <=>
              /\ retorno.ganho = 0
              /\ \A f \in Faixas(min_minuto, max_minuto) :
                    SomaFaixa(df_intervalo, f[1], f[2]) <= 0
        /\ (\A m \in min_minuto .. max_minuto : SomaFaixa(df_intervalo, m, m) <= 0)
              => retorno = SemIntervalo

C2_Witness ==
    /\ pc = "retornado"
    /\ retorno = SemIntervalo
    /\ minuto = max_minuto + 1
    /\ \E m \in min_minuto .. max_minuto : SomaFaixa(df_intervalo, m, m) < 0
    /\ \E m \in min_minuto .. max_minuto :
          /\ SomaFaixa(df_intervalo, m, m) = 0
          /\ \E i \in LinhasValidas(df_intervalo) : df_intervalo.linhas[i].Minutos_Dia = m

\* The ranges that attain the maximum range sum.
FaixasMaximas(df, lo, hi) ==
    {f \in Faixas(lo, hi) : SomaFaixa(df, f[1], f[2]) = MaiorSomaDeFaixa(df, lo, hi)}

\* C3: the reported interval attains the maximum, and no maximum-sum range
\* ends earlier than the reported end or starts earlier than the reported
\* start.
C3_PrimeiroIntervaloMaximo ==
    (pc = "retornado" /\ retorno.inicio # None) =>
        /\ <<retorno.inicio, retorno.fim>> \in
              FaixasMaximas(df_intervalo, min_minuto, max_minuto)
        /\ retorno.ganho = SomaFaixa(df_intervalo, retorno.inicio, retorno.fim)
        /\ \A f \in FaixasMaximas(df_intervalo, min_minuto, max_minuto) :
              f[1] >= retorno.inicio /\ f[2] >= retorno.fim

C3_Witness ==
    /\ pc = "retornado"
    /\ retorno.inicio # None
    /\ \E f \in FaixasMaximas(df_intervalo, min_minuto, max_minuto) :
          f[1] > retorno.fim
    /\ \E f \in FaixasMaximas(df_intervalo, min_minuto, max_minuto) :
          f[1] = retorno.inicio /\ f[2] > retorno.fim

EhCenarioA ==
    /\ df_intervalo \in Reordenacoes([colunas |-> ColunasCompletas, linhas |-> CenarioA])
    /\ min_minuto = 540
    /\ max_minuto = 544

\* One iteration of the pass is being taken.
IteracaoDoLaco == pc = "laco" /\ minuto <= max_minuto /\ minuto' = minuto + 1

\* C5: when the running sum drops below 0 at minute m it is reset to 0 and
\* the candidate start becomes m + 1; the candidate start never moves back
\* and every interval recorded later starts at the candidate start, hence
\* after m; scenario A gives start 541, end 544, gain 25.
C5_ResetNoNegativo ==
    /\ [][IteracaoDoLaco =>
            /\ (soma_atual + somas_completas[minuto] < 0) =>
                   (soma_atual' = 0 /\ inicio_atual' = minuto + 1)
            /\ inicio_atual' >= inicio_atual
            /\ (melhor_inicio_global' # melhor_inicio_global
                  \/ melhor_fim_global' # melhor_fim_global) =>
                   (melhor_inicio_global' = inicio_atual /\ melhor_fim_global' = minuto)
            /\ melhor_inicio_global # None => melhor_inicio_global' >= melhor_inicio_global
         ]_vars
    /\ []((pc = "retornado" /\ EhCenarioA) =>
            retorno = [inicio |-> 541, fim |-> 544, ganho |-> 25])

C5_Witness ==
    /\ pc = "retornado"
    /\ EhCenarioA
    /\ retorno.inicio = 541
    /\ inicio_atual = 541

\* C7: a second run on the same rows, in any row order, returns the same
\* (start, end, gain), and the pass never changes the table it was given.
C7_MesmoResultado ==
    /\ []((pc = "retornado" /\ chamadas >= 2) => retorno = retorno_anterior)
    /\ [][pc = "laco" => df_intervalo' = df_intervalo]_vars

C7_Witness ==
    /\ pc = "retornado"
    /\ chamadas = 2
    /\ retorno.ganho > 0
    /\ Len(df_intervalo.linhas) >= 2
    /\ \E i, j \in LinhasValidas(df_intervalo) :
          /\ i < j
          /\ df_intervalo.linhas[i].Minutos_Dia = df_intervalo.linhas[j].Minutos_Dia
          /\ df_intervalo.linhas[i].Resultado_Valor # df_intervalo.linhas[j].Resultado_Valor

----------------------------------------------------------------------------
(* Claims about the callers of the optimizer                               *)

\* C4: the range the optimizer walks is the trading window that built the
\* window-filtered view, [start_hour*60, end_hour*60+59], in the global run
\* and in every per-entity run, so every record of the view lies in it.
C4_JanelaVarridaIgualJanelaFiltro ==
    todos_minutos # <<>> =>
        /\ \A i \in DOMAIN banco_filtrado_8_18.linhas :
              /\ todos_minutos[1] <= banco_filtrado_8_18.linhas[i].Minutos_Dia
              /\ banco_filtrado_8_18.linhas[i].Minutos_Dia <= todos_minutos[2]
        /\ todos_minutos = <<TRADING_HOUR_START * 60, TRADING_HOUR_END * 60 + 59>>

\* Scenario D: RoboA has rows only at minute 600, RoboB only at minute 700,
\* every value positive.
CenarioD ==
    /\ \E i \in DOMAIN banco_filtrado_8_18.linhas :
          banco_filtrado_8_18.linhas[i].Robo = "RoboA"
    /\ \E i \in DOMAIN banco_filtrado_8_18.linhas :
          banco_filtrado_8_18.linhas[i].Robo = "RoboB"
    /\ \A i \in DOMAIN banco_filtrado_8_18.linhas :
          LET r == banco_filtrado_8_18.linhas[i]
          IN /\ r.Resultado_Valor > 0
             /\ r.Robo = "RoboA" => r.Minutos_Dia = 600
             /\ r.Robo = "RoboB" => r.Minutos_Dia = 700

SomaDoRobo(robo) == SomaColuna(DoRobo(banco_filtrado_8_18, robo).linhas)

GanhoListado(robo, g) ==
    /\ \E i \in DOMAIN melhores_intervalos_robos_list :
          /\ melhores_intervalos_robos_list[i].Robo = robo
          /\ melhores_intervalos_robos_list[i].Ganho = g
    /\ Cardinality({i \in DOMAIN melhores_intervalos_robos_list :
                       melhores_intervalos_robos_list[i].Robo = robo}) = 1

\* C6 as stated: in scenario D each entity's gain is its own value and the
\* global best interval is reported as 600..700 with the sum of the values.
C6_CenarioDInicio600 ==
    (pcg = "fim" /\ CenarioD) =>
        /\ GanhoListado("RoboA", SomaDoRobo("RoboA"))
        /\ GanhoListado("RoboB", SomaDoRobo("RoboB"))
        /\ melhor_intervalo_geral =
              [inicio |-> 600, fim |-> 700,
               ganho |-> SomaDoRobo("RoboA") + SomaDoRobo("RoboB")]

\* C6 amended: in scenario D each entity's gain is its own value and the
\* global best interval is reported as starting at the first minute of the
\* range (480) and ending at minute 700, with the sum of the values.
C6_CenarioDInicio480 ==
    (pcg = "fim" /\ CenarioD) =>
        /\ GanhoListado("RoboA", SomaDoRobo("RoboA"))
        /\ GanhoListado("RoboB", SomaDoRobo("RoboB"))
        /\ melhor_intervalo_geral =
              [inicio |-> 480, fim |-> 700,
               ganho |-> SomaDoRobo("RoboA") + SomaDoRobo("RoboB")]

C6_Witness ==
    /\ pcg = "fim"
    /\ CenarioD
    /\ melhor_intervalo_geral.ganho = 4
    /\ Len(melhores_intervalos_robos_list) = 2

----------------------------------------------------------------------------
(* Claims about the numeric normalizer and the null-result drop            *)

\* An optionally signed, non-empty string of digits.
EhInteiro(t) == TodosDigitos(SemSinal(t))
ValorInteiro(t) == (IF Negativo(t) THEN -1 ELSE 1) * ValorDigitos(SemSinal(t))

\* The cell a row of the table was read from.
Lida(r) == celulas_lidas[r.id]

\* The cleaned text of the claim: trimmed, without spaces, '.' and ','.
TextoLimpo(cel) == Replace(Replace(Replace(Strip(AsTypeStr(cel)), " "), "."), ",")

\* C8: every cleaned text that parses as an integer becomes that integer,
\* every other one becomes 0 and is counted as a failure; scenario C gives
\* 1234, 1234, 500, 0 with exactly one failure.
C8_InteiroOuZeroContado ==
    pci = "limpo" =>
        /\ \A i \in DOMAIN df_ing :
              df_ing[i].Resultado_Valor =
                 IF EhInteiro(TextoLimpo(Lida(df_ing[i])))
                 THEN Num(ValorInteiro(TextoLimpo(Lida(df_ing[i]))), 0)
                 ELSE Zero
        /\ nan_conversion_count =
              Cardinality({i \in DOMAIN df_ing : ~EhInteiro(TextoLimpo(Lida(df_ing[i])))})
        /\ celulas_lidas = CenarioC =>
              /\ [i \in DOMAIN df_ing |-> df_ing[i].Resultado_Valor] =
                    <<Num(1234, 0), Num(1234, 0), Num(500, 0), Zero>>
              /\ nan_conversion_count = 1

\* The scenario of C8 alone.
C8_CenarioC ==
    (pci = "limpo" /\ celulas_lidas = CenarioC) =>
        /\ [i \in DOMAIN df_ing |-> df_ing[i].Resultado_Valor] =
              <<Num(1234, 0), Num(1234, 0), Num(500, 0), Zero>>
        /\ nan_conversion_count = 1

\* C9: after the normalization every value of the result column is a
\* finite number: not null, not NaN, not infinite.
C9_SempreFinito ==
    pci = "limpo" => \A i \in DOMAIN df_ing : df_ing[i].Resultado_Valor.cls = "fin"

\* The part of C9 about null and NaN.
C9_NuncaNaN ==
    pci = "limpo" => \A i \in DOMAIN df_ing : df_ing[i].Resultado_Valor.cls # "nan"

\* A cell that is missing or holds nothing but blanks.
Ausente(cel) ==
    cel.tipo \in {"nan", "none"} \/ (cel.tipo = "str" /\ Len(Strip(cel.s)) = 0)

\* C10: in both variants the rows left by the drop are exactly the rows
\* whose original value is present, and the drop is made while the result
\* column still holds the values as read.
C10_DescartaSoAusentes ==
    /\ pci \in {"filtrado", "vazio", "limpo"} =>
          {df_ing[i].id : i \in DOMAIN df_ing} =
             {k \in DOMAIN celulas_lidas : ~Ausente(celulas_lidas[k])}
    /\ pci = "filtrado" =>
          \A i \in DOMAIN df_ing : df_ing[i].Resultado_Valor = Lida(df_ing[i])

----------------------------------------------------------------------------
(* Claims about the ingestors at table level                               *)

\* What source k yields when it is processed on its own.
Isolada(k) == ProcessarArquivoCsv(files[k], colunas_tempo)

FonteFalha(k) == Isolada(k).motivo # SemErro

\* The tables of the sources that succeed on their own, in input order.
RECURSIVE TabelasDosSucessos(_)
TabelasDosSucessos(n) ==
    IF n = 0 THEN <<>>
    ELSE IF FonteFalha(n) THEN TabelasDosSucessos(n - 1)
    ELSE Append(TabelasDosSucessos(n - 1), Isolada(n).df)

\* The entity cells expected in the batch: for each successful source in
\* input order, its name once per row it yields.
RECURSIVE RobosDosSucessos(_)
RobosDosSucessos(n) ==
    IF n = 0 THEN <<>>
    ELSE IF FonteFalha(n) THEN RobosDosSucessos(n - 1)
    ELSE RobosDosSucessos(n - 1)
           \o [i \in DOMAIN Isolada(n).df.linhas |->
                 TextoDe(SplitextRaiz(SanitizeFilename(files[n].filename)))]

\* An empty or unparseable source, or one with no recognized result header.
FonteSemDadosOuEsquema(file) ==
    \/ file.leitura # "ok"
    \/ Len(file.linhas) = 0
    \/ \A k \in DOMAIN file.colunas :
          NomeLower(NomeStrip(file.colunas[k])) \notin
              {NomeLower(PRIMARY_RESULT_COLUMN_CSV)}
                \cup {NomeLower(FALLBACK_RESULT_COLUMNS_CSV[i]) :
                         i \in DOMAIN FALLBACK_RESULT_COLUMNS_CSV}

\* C11: the batch fails exactly when every source fails; otherwise it
\* returns the rows of exactly the successful sources, in input order and
\* as each source yields them on its own; a failing source (empty,
\* unparseable, missing schema, raising) is recorded and the loop goes on
\* to the next source.
C11_LoteIsolaFalhas ==
    upload_type = "multiple" =>
        /\ pcf = "inicio" =>
              /\ Len(dfs) + Len(failed_files) = file_index - 1
              /\ \A k \in 1 .. (file_index - 1) :
                    FonteSemDadosOuEsquema(files[k]) => FonteFalha(k)
              /\ dfs = TabelasDosSucessos(file_index - 1)
        /\ pcf \in {"erro", "retornado"} =>
              /\ Len(dfs) + Len(failed_files) = Len(files)
              /\ pcf = "erro" <=> \A k \in DOMAIN files : FonteFalha(k)
              /\ pcf = "erro" <=> Len(failed_files) = Len(files)
        /\ pcf = "retornado" =>
              /\ retorno_ingestor.df = Concat(TabelasDosSucessos(Len(files)))
              /\ Coluna(retorno_ingestor.df, ROBO_COLUMN_NAME) = RobosDosSucessos(Len(files))
              /\ Len(retorno_ingestor.df.linhas) > 0

C11_Witness ==
    /\ upload_type = "multiple"
    /\ pcf = "retornado"
    /\ Len(files) >= 2
    /\ FonteFalha(1)
    /\ ~FonteFalha(2)
    /\ files[1].leitura = "ok"
    /\ Len(files[1].linhas) > 0
    /\ Len(retorno_ingestor.df.linhas) >= 2

\* The three failure cases of the single-table variant, read off the source
\* as it was uploaded.
ExcelIlegivel == files[1].leitura # "ok"

ExcelSemColunaResultado ==
    /\ files[1].leitura = "ok"
    /\ OriginalColName(files[1].colunas, PRIMARY_RESULT_COLUMN_EXCEL,
                       FALLBACK_RESULT_COLUMNS_EXCEL) = SemColuna

ExcelSemLinhasComResultado ==
    /\ files[1].leitura = "ok"
    /\ ~ExcelSemColunaResultado
    /\ LET original == OriginalColName(files[1].colunas, PRIMARY_RESULT_COLUMN_EXCEL,
                                       FALLBACK_RESULT_COLUMNS_EXCEL)
           p == CHOOSE k \in DOMAIN files[1].colunas : files[1].colunas[k] = original
       IN \A i \in DOMAIN files[1].linhas : files[1].linhas[i][p] = CelulaNaN

ExcelTerminou == upload_type = "single" /\ pcf \in {"erro", "retornado"}

NomesPorPrioridade(primary_col, fallback_cols) == <<primary_col>> \o fallback_cols

Casa(coluna, nome) == NomeLower(coluna) = NomeLower(nome)

NomePreferido(colunas, nomes) ==
    IF \E i \in DOMAIN nomes : \E k \in DOMAIN colunas : Casa(colunas[k], nomes[i])
    THEN nomes[CHOOSE i \in DOMAIN nomes :
                  /\ \E k \in DOMAIN colunas : Casa(colunas[k], nomes[i])
                  /\ \A j \in 1..(i - 1) :
                        ~\E k \in DOMAIN colunas : Casa(colunas[k], nomes[j])]
    ELSE SemColuna

\* C16: _find_and_rename_result_column renames to the canonical name a
\* column that carries, up to letter case, the most preferred name present
\* (the primary name before any fallback, an earlier fallback before a later
\* one); exactly one column changes its name, every other column and every
\* cell stays, and the step ends in an error when no header matches.
C16_ColunaDeResultadoPorPrioridade ==
    [][ExcelResultado =>
        LET antes == banco_geral.colunas
            depois == banco_geral'.colunas
            preferido == NomePreferido(antes, NomesPorPrioridade(
                             PRIMARY_RESULT_COLUMN_EXCEL, FALLBACK_RESULT_COLUMNS_EXCEL))
        IN IF preferido = SemColuna
           THEN pcf' = "erro" /\ erro_fonte' = "ValueError"
           ELSE /\ pcf' = "nulos"
                /\ Len(depois) = Len(antes) + 1
                /\ depois[Len(depois)] = DebugCol
                /\ Cardinality({k \in DOMAIN antes : depois[k] # antes[k]}) = 1
                /\ \A k \in DOMAIN antes :
                      depois[k] # antes[k] =>
                          /\ Casa(antes[k], preferido)
                          /\ depois[k] = RESULT_COLUMN_NAME
                          /\ retorno_ingestor'.nome = antes[k]
                /\ \A i \in DOMAIN banco_geral.linhas : \A k \in DOMAIN antes :
                      banco_geral'.linhas[i][k] = banco_geral.linhas[i][k]]_vars

C16_Witness ==
    /\ upload_type = "single"
    /\ pcf = "nulos"
    /\ EmSeq(files[1].colunas, "Res. Operação (%)")
    /\ EmSeq(files[1].colunas, "Profit")
    /\ retorno_ingestor.nome = "Res. Operação (%)"
    /\ EmSeq(banco_geral.colunas, RESULT_COLUMN_NAME)
    /\ EmSeq(banco_geral.colunas, "Profit")

\* Some header is recognized, up to letter case, both as an open-time name
\* and as a close-time name: both roles resolve to that one column.
MesmaColunaNosDoisPapeis(colunas, ct) ==
    \E k \in DOMAIN colunas :
        /\ \E i \in DOMAIN ct.open : Casa(colunas[k], ct.open[i])
        /\ \E j \in DOMAIN ct.close : Casa(colunas[k], ct.close[j])

\* C17: the resolution of the timestamp columns ends in an error whenever
\* the open-time role and the close-time role resolve to the very same
\* original column, instead of giving that column to one role silently.
C17_MesmaColunaLevantaErro ==
    (/\ upload_type = "single"
     /\ pcf # "inicio"
     /\ files[1].leitura = "ok"
     /\ Len(files[1].linhas) > 0
     /\ MesmaColunaNosDoisPapeis(files[1].colunas, colunas_tempo))
        => erro_fonte = "ValueError"

\* C18: every table with rows that either ingestor returns has exactly one
\* column for each of the four roles 'Abertura', 'Fechamento', 'Robo' and
\* 'Resultado_Valor', whatever recognized headers the source carries.
C18_QuatroPapeisUmaVezCada ==
    (pcf = "retornado" /\ Len(retorno_ingestor.df.linhas) > 0) =>
        \A k \in DOMAIN colunas_essenciais :
            Cardinality(Posicoes(retorno_ingestor.df.colunas, colunas_essenciais[k])) = 1

\* The same statement for the multi-file variant alone.
QuatroPapeisNoLote ==
    upload_type = "multiple" => C18_QuatroPapeisUmaVezCada

\* A single-table source without any time header comes back as a table.
SemAberturaDevolvida ==
    /\ upload_type = "single"
    /\ pcf = "retornado"
    /\ Len(retorno_ingestor.df.linhas) > 0
    /\ ~EmSeq(retorno_ingestor.df.colunas, "Abertura")

\* Headers 'robo' and 'Robo' together come back as two 'Robo' columns.
DoisRobosDevolvidos ==
    /\ upload_type = "single"
    /\ pcf = "retornado"
    /\ Cardinality(Posicoes(retorno_ingestor.df.colunas, ROBO_COLUMN_NAME)) = 2

\* C19: every row of a returned table has a non-null entity: the constant
\* placeholder when the single-table source has no entity column, the file
\* name without its extension in the multi-file variant.
C19_EntidadeNuncaNula ==
    (pcf = "retornado" /\ Len(retorno_ingestor.df.linhas) > 0) =>
        /\ Posicoes(retorno_ingestor.df.colunas, ROBO_COLUMN_NAME) # {}
        /\ \A i \in DOMAIN retorno_ingestor.df.linhas :
              \A p \in Posicoes(retorno_ingestor.df.colunas, ROBO_COLUMN_NAME) :
                  retorno_ingestor.df.linhas[i][p] # CelulaNaN
        /\ (upload_type = "single" /\ ActualRoboCol(files[1].colunas) = SemColuna)
              => \A i \in DOMAIN retorno_ingestor.df.linhas :
                    \A p \in Posicoes(retorno_ingestor.df.colunas, ROBO_COLUMN_NAME) :
                        retorno_ingestor.df.linhas[i][p] = ExcelData
        /\ upload_type = "multiple"
              => Coluna(retorno_ingestor.df, ROBO_COLUMN_NAME)
                   = RobosDosSucessos(Len(files))

\* The two halves of the statement that do not depend on the cells of an
\* entity column read from the source.
EntidadePadraoOuNomeDoArquivo ==
    (pcf = "retornado" /\ Len(retorno_ingestor.df.linhas) > 0) =>
        /\ (upload_type = "single" /\ ActualRoboCol(files[1].colunas) = SemColuna)
              => \A i \in DOMAIN retorno_ingestor.df.linhas :
                    \A p \in Posicoes(retorno_ingestor.df.colunas, ROBO_COLUMN_NAME) :
                        retorno_ingestor.df.linhas[i][p] = ExcelData
        /\ upload_type = "multiple"
              => /\ Coluna(retorno_ingestor.df, ROBO_COLUMN_NAME)
                      = RobosDosSucessos(Len(files))
                 /\ \A i \in DOMAIN retorno_ingestor.df.linhas :
                       Coluna(retorno_ingestor.df, ROBO_COLUMN_NAME)[i] # CelulaNaN

----------------------------------------------------------------------------
(* Claims about the consolidator and the per-entity sums                   *)

\* What the statements say of one row of the input dataset.
AberturaValida(r) == r.Abertura.tipo = "ts"
FechamentoValido(r) == r.Fechamento.tipo = "ts"
MeiaNoiteExata(r) == r.Abertura.hora = 0 /\ r.Abertura.minuto = 0 /\ r.Abertura.segundo = 0
ComHorarioEspecifico(r) == AberturaValida(r) /\ FechamentoValido(r) /\ ~MeiaNoiteExata(r)
NaJanela(r) ==
    /\ TRADING_HOUR_START * 60 <= r.Abertura.hora * 60 + r.Abertura.minuto
    /\ r.Abertura.hora * 60 + r.Abertura.minuto <= TRADING_HOUR_END * 60 + 59

\* The consolidator returned and the window-filtered view exists.
ConsolidadoDevolvido == pcc = "janela" /\ pcg \in {"grafico", "robos", "fim"}

\* The fields of the input row, read from a row of a view.
Original(r) ==
    [Abertura |-> r.Abertura, Fechamento |-> r.Fechamento, Robo |-> r.Robo,
     Resultado_Valor |-> r.Resultado_Valor]

\* C13: the raw metrics are computed over every row of the input dataset
\* before any date filtering and stay as they are through the later drops
\* and steps: the grand total and the count cover all rows, each entity's
\* sum covers all rows of that entity, and a row with an invalid open or
\* close time or an open time of exactly midnight counts in them while the
\* window-filtered view holds none of those rows.
C13_MetricasBrutasDeTodasAsLinhas ==
    ConsolidadoDevolvido =>
        LET linhas == banco_geral_bruto.linhas
            nomes == {linhas[i].Robo : i \in DOMAIN linhas} \ {RoboNulo}
        IN /\ soma_absoluta_total = SomaIndices(linhas, DOMAIN linhas)
           /\ count_operacoes_total_originais = Len(linhas)
           /\ DOMAIN somas_absolutas_por_robo = nomes
           /\ \A robo \in nomes :
                 somas_absolutas_por_robo[robo] =
                     SomaIndices(linhas, {i \in DOMAIN linhas : linhas[i].Robo = robo})
           /\ \A k \in DOMAIN banco_filtrado_8_18.linhas :
                 ComHorarioEspecifico(banco_filtrado_8_18.linhas[k])
           /\ Len(banco_filtrado_8_18.linhas)
                 <= Cardinality({i \in DOMAIN linhas : ComHorarioEspecifico(linhas[i])})

C13_Witness ==
    /\ ConsolidadoDevolvido
    /\ pcr = "retornado"
    /\ \E i \in DOMAIN banco_geral_bruto.linhas :
          /\ ~AberturaValida(banco_geral_bruto.linhas[i])
          /\ banco_geral_bruto.linhas[i].Resultado_Valor = 2
    /\ Len(banco_filtrado_8_18.linhas) = 1
    /\ Len(banco_geral_bruto.linhas) = 2
    /\ soma_absoluta_total = 4
    /\ SomaColuna(banco_filtrado_8_18.linhas) = 2

\* C14: a row of the input is in the window-filtered view exactly when its
\* open and close times are valid, its open time is not exactly 00:00:00
\* and start_hour*60 <= hour*60+minute <= end_hour*60+59; the view keeps
\* the input order, and the minute of the day is computed only on rows whose
\* open time is not exactly midnight.
C14_VisaoDaJanela ==
    ConsolidadoDevolvido =>
        /\ [k \in DOMAIN banco_filtrado_8_18.linhas |->
               Original(banco_filtrado_8_18.linhas[k])]
             = SelectSeq(banco_geral_bruto.linhas,
                         LAMBDA r : ComHorarioEspecifico(r) /\ NaJanela(r))
        /\ \A k \in DOMAIN banco_filtrado_8_18.linhas :
              LET r == banco_filtrado_8_18.linhas[k]
              IN /\ r.Minutos_Dia = r.Abertura.hora * 60 + r.Abertura.minuto
                 /\ ~MeiaNoiteExata(r)
        /\ \A k \in DOMAIN banco_geral_final.linhas :
              "Minutos_Dia" \notin DOMAIN banco_geral_final.linhas[k]
        /\ \A k \in DOMAIN banco_com_hora : ~MeiaNoiteExata(banco_com_hora[k])

C14_Witness ==
    /\ ConsolidadoDevolvido
    /\ Len(banco_geral_bruto.linhas) = 2
    /\ \E i \in DOMAIN banco_geral_bruto.linhas :
          LET r == banco_geral_bruto.linhas[i]
          IN ComHorarioEspecifico(r) /\ r.Abertura.hora = 0 /\ r.Abertura.segundo = 30
    /\ Len(banco_filtrado_8_18.linhas) = 1
    /\ banco_filtrado_8_18.linhas[1].Minutos_Dia = TRADING_HOUR_END * 60 + 59

\* Rows of the input that the two drops leave: a drop removes the rows whose
\* cell in the column is null, so a column that is absent removes nothing.
AposOsDoisDrops(df) ==
    SelectSeq(df.linhas,
              LAMBDA r : /\ ("Abertura" \in df.colunas => AberturaValida(r))
                         /\ ("Fechamento" \in df.colunas => FechamentoValido(r)))

ConsolidadoTerminou == pcc \in {"erro", "janela"}

GanhoDoMelhorIntervalo(df) ==
    LET dentro == {i \in DOMAIN df.linhas :
                      /\ df.linhas[i].Minutos_Dia >= MinMinutoPadrao
                      /\ df.linhas[i].Minutos_Dia <= MaxMinutoPadrao}
        ms == {df.linhas[i].Minutos_Dia : i \in dentro}
        faixas == {SomaIndices(df.linhas,
                               {i \in dentro : /\ a <= df.linhas[i].Minutos_Dia
                                               /\ df.linhas[i].Minutos_Dia <= b}) :
                      a \in ms, b \in ms}
    IN Maximo(faixas \cup {0})

RECURSIVE SomaDosGanhosPorEntidade(_)
SomaDosGanhosPorEntidade(S) ==
    IF S = {} THEN 0
    ELSE LET e == CHOOSE x \in S : TRUE
         IN GanhoDoMelhorIntervalo(DoRobo(banco_filtrado_8_18, e))
              + SomaDosGanhosPorEntidade(S \ {e})

RECURSIVE TotalDaTabelaPorEntidade(_)
TotalDaTabelaPorEntidade(lista) ==
    IF Len(lista) = 0 THEN 0
    ELSE lista[1].Ganho + TotalDaTabelaPorEntidade(Tail(lista))

EntidadesDistintas ==
    {banco_geral_com_data.linhas[i].Robo : i \in DOMAIN banco_geral_com_data.linhas}

----------------------------------------------------------------------------
(* Claims about the pass of the optimizer, step by step                    *)

\* The pass has handled the minutes min_minuto .. minuto - 1.
NoLaco == pc = "laco"

\* C26: after every step of the pass over minute m the running sum is >= 0,
\* the candidate start lies in min_minuto .. m+1, the best total has not
\* decreased, and when a best interval is recorded it satisfies
\* min_minuto <= start <= end <= m with the best total equal to the sum of
\* the per-minute values over [start, end].
C26_InvarianteDoPasso ==
    /\ [](NoLaco =>
            LET m == minuto - 1
            IN /\ soma_atual >= 0
               /\ min_minuto <= inicio_atual
               /\ inicio_atual <= m + 1
               /\ max_soma_global >= 0
               /\ (melhor_inicio_global = None) <=> (melhor_fim_global = None)
               /\ melhor_inicio_global # None =>
                     /\ min_minuto <= melhor_inicio_global
                     /\ melhor_inicio_global <= melhor_fim_global
                     /\ melhor_fim_global <= m
                     /\ max_soma_global =
                           SomaFaixa(df_intervalo, melhor_inicio_global, melhor_fim_global))
    /\ [][Passo => max_soma_global' >= max_soma_global]_vars

C26_Witness ==
    /\ NoLaco
    /\ minuto = max_minuto + 1
    /\ melhor_inicio_global = min_minuto + 1
    /\ melhor_fim_global = min_minuto + 2
    /\ inicio_atual = min_minuto + 1
    /\ max_soma_global = 3
    /\ soma_atual = 3

----------------------------------------------------------------------------
(* The two helpers of the ingestors called on their own, with any table    *)
(* and any column name.                                                    *)

MaxColunasFn == 2         \* columns of a sampled table
MaxLinhasFn == 1          \* rows of a sampled table

CabecalhosFn == {"Resultado_Valor", "Profit", "Robo"}
NomesFn == {"Resultado_Valor", "Robo", "Lucro"}
CelulasFn == {Texto(<<"1", "2">>), Texto(<<"a">>), CelulaNaN}

TabelasFn ==
    UNION {{[colunas |-> c, linhas |-> l] :
               l \in SeqsAte({r \in SeqsAte(CelulasFn, Len(c)) : Len(r) = Len(c)},
                             MaxLinhasFn)} :
           c \in SeqsAte(CabecalhosFn, MaxColunasFn)}

\* _clean_numeric_result_column(df, col_name), lines 95-197.  The guard of
\* line 95 raises for a name that is no column; with the name on more than
\* one column df[col_name] is a table, which has no .str accessor.  The
\* temporary columns are created and dropped again.
CleanNumericResultColumnDf(df, col) ==
    IF Posicoes(df.colunas, col) = {}
    THEN [erro |-> "KeyError", df |-> df]
    ELSE IF Cardinality(Posicoes(df.colunas, col)) > 1
    THEN [erro |-> "AttributeError", df |-> df]
    ELSE LET celulas == Coluna(df, col)
             limpo == CleanNumericResultColumn(
                          [i \in DOMAIN celulas |-> [Resultado_Valor |-> celulas[i]]])
         IN [erro |-> SemErro,
             df |-> Atribuir(df, col,
                       [i \in DOMAIN celulas |-> limpo.linhas[i].Resultado_Valor])]

InitFuncoes ==
    /\ df_fn \in TabelasFn
    /\ col_name \in NomesFn
    /\ ret_fn = [erro |-> SemErro, df |-> DataFrameVazio]
    /\ pcfn = "entrada"
    /\ IntervaloParado
    /\ GraficoParado
    /\ IngestaoParada
    /\ FontesParadas
    /\ ConsolidadoParado
    /\ PorRoboParado
    /\ LoteParado
    /\ ContagensParadas
    /\ PedidosParados

OutrasParadasFn == UNCHANGED <<varsIntervalo, varsGrafico, varsIngestao, varsFontes,
                               varsConsolidado, varsPorRobo, varsLote, varsContagens,
                               varsPedidos>>

ChamarFindAndRename ==
    /\ pcfn = "entrada"
    /\ ret_fn' = FindAndRenameResultColumn(df_fn, PRIMARY_RESULT_COLUMN_EXCEL,
                                           FALLBACK_RESULT_COLUMNS_EXCEL,
                                           RESULT_COLUMN_NAME)
    /\ pcfn' = "renomeado"
    /\ UNCHANGED <<df_fn, col_name>>
    /\ OutrasParadasFn

ChamarCleanNumeric ==
    /\ pcfn = "entrada"
    /\ ret_fn' = CleanNumericResultColumnDf(df_fn, col_name)
    /\ pcfn' = "limpo"
    /\ UNCHANGED <<df_fn, col_name>>
    /\ OutrasParadasFn

NextFuncoes == ChamarFindAndRename \/ ChamarCleanNumeric

SpecFuncoes == InitFuncoes /\ [][NextFuncoes]_vars

----------------------------------------------------------------------------
(* The request handler index() (app.py), several POST requests in flight.  *)
(* Every request works in request_report_dir = RELATORIOS_DIR_ABS (line    *)
(* 96), one directory for all of them.  A step is one stretch of the       *)
(* handler between two accesses to the directory.                          *)

\* utils.py, lines 26-43: os.makedirs(path, exist_ok=True).
CriarDiretorioSeguro(dir) == [dir EXCEPT !.existe = TRUE]

\* utils.py, lines 45-63: shutil.rmtree(path) when the directory exists.
LimparDiretorioSeguro(dir) ==
    IF dir.existe THEN [existe |-> FALSE, arquivos |-> SemArquivos] ELSE dir

\* The request leaves index() by the exit path s; limpa tells whether the
\* path calls limpar_diretorio_seguro(request_report_dir).
Sair(r, s, limpa) ==
    /\ pcp' = [pcp EXCEPT ![r] = "fim"]
    /\ saida' = [saida EXCEPT ![r] = s]
    /\ IF limpa
       THEN /\ relatorios_dir' = LimparDiretorioSeguro(relatorios_dir)
            /\ limpezas' = [limpezas EXCEPT ![r] = @ + 1]
       ELSE UNCHANGED <<relatorios_dir, limpezas>>

OutrosParadosPedidos ==
    UNCHANGED <<varsIntervalo, varsGrafico, varsIngestao, varsFontes, varsConsolidado,
                varsPorRobo, varsFuncoes, varsLote, varsContagens>>

InitPedidos ==
    /\ relatorios_dir \in {[existe |-> e, arquivos |-> SemArquivos] : e \in BOOLEAN}
    /\ pcp = [r \in Pedidos |-> "inicio"]
    /\ saida = [r \in Pedidos |-> SemSaida]
    /\ limpezas = [r \in Pedidos |-> 0]
    /\ IntervaloParado
    /\ GraficoParado
    /\ IngestaoParada
    /\ FontesParadas
    /\ ConsolidadoParado
    /\ PorRoboParado
    /\ FuncoesParadas
    /\ LoteParado
    /\ ContagensParadas

\* Lines 98-107: the form is read (an oversized body raises
\* RequestEntityTooLarge, handled at lines 272-276), then the directory is
\* created.
Receber(r) ==
    /\ pcp[r] = "inicio"
    /\ \/ Sair(r, "muito_grande", TRUE)
       \/ /\ relatorios_dir' = CriarDiretorioSeguro(relatorios_dir)
          /\ pcp' = [pcp EXCEPT ![r] = "criado"]
          /\ UNCHANGED <<saida, limpezas>>
    /\ OutrosParadosPedidos

\* The exits of lines 118-185 and of the consolidator call of line 189 with
\* the exception handlers of lines 277-295.
SaidasDaLeitura ==
    {[s |-> "sem_arquivo", limpa |-> FALSE],        \* lines 120-123, 139-142
     [s |-> "validacao", limpa |-> TRUE],           \* lines 131-135, 158-162
     [s |-> "processamento", limpa |-> TRUE],       \* lines 168-172
     [s |-> "tipo_desconhecido", limpa |-> TRUE],   \* lines 174-178
     [s |-> "vazio", limpa |-> TRUE],               \* lines 181-185
     [s |-> "erro_conhecido", limpa |-> TRUE],      \* lines 277-282
     [s |-> "inesperado", limpa |-> TRUE]}          \* lines 289-295

\* Lines 110-189: the upload is validated, read and consolidated.
Ler(r) ==
    /\ pcp[r] = "criado"
    /\ \/ \E x \in SaidasDaLeitura : Sair(r, x.s, x.limpa)
       \/ /\ pcp' = [pcp EXCEPT ![r] = "graficos"]
          /\ UNCHANGED <<relatorios_dir, saida, limpezas>>
    /\ OutrosParadosPedidos

\* Lines 190-231 with _salvar_grafico (chart_generator.py, lines 59-74):
\* the directory is created again if it is gone and the chart files are
\* written under their fixed names.
Graficos(r) ==
    /\ pcp[r] = "graficos"
    /\ relatorios_dir' = [existe |-> TRUE,
                          arquivos |-> [relatorios_dir.arquivos EXCEPT !.grafico = r]]
    /\ pcp' = [pcp EXCEPT ![r] = "pdf"]
    /\ UNCHANGED <<saida, limpezas>>
    /\ OutrosParadosPedidos

\* Lines 234-243 with gerar_pdf (pdf_generator.py, lines 273, 571-581): the
\* report is built at its fixed path; without the directory the build
\* fails with RuntimeError, handled at lines 283-288.
Pdf(r) ==
    /\ pcp[r] = "pdf"
    /\ IF relatorios_dir.existe
       THEN /\ relatorios_dir' =
                  [relatorios_dir EXCEPT !.arquivos = [@ EXCEPT !.pdf = r]]
            /\ pcp' = [pcp EXCEPT ![r] = "enviar"]
            /\ UNCHANGED <<saida, limpezas>>
       ELSE Sair(r, "pdf_falhou", TRUE)
    /\ OutrosParadosPedidos

\* Lines 247-262: the cleanup is registered and send_file opens the report;
\* a missing file raises FileNotFoundError, handled at lines 277-282.
Enviar(r) ==
    /\ pcp[r] = "enviar"
    /\ IF relatorios_dir.arquivos.pdf # SemDono
       THEN /\ pcp' = [pcp EXCEPT ![r] = "limpeza"]
            /\ saida' = [saida EXCEPT ![r] =
                            IF relatorios_dir.arquivos.pdf = r
                            THEN "sucesso" ELSE "relatorio_alheio"]
            /\ UNCHANGED <<relatorios_dir, limpezas>>
       ELSE \* the handler cleans up; the registered callback is still to run
            /\ relatorios_dir' = LimparDiretorioSeguro(relatorios_dir)
            /\ limpezas' = [limpezas EXCEPT ![r] = @ + 1]
            /\ saida' = [saida EXCEPT ![r] = "envio_falhou"]
            /\ pcp' = [pcp EXCEPT ![r] = "limpeza"]
    /\ OutrosParadosPedidos

\* Lines 247-252: the after_this_request callback.
Limpeza(r) ==
    /\ pcp[r] = "limpeza"
    /\ Sair(r, saida[r], TRUE)
    /\ OutrosParadosPedidos

PassoDoPedido(r) ==
    Receber(r) \/ Ler(r) \/ Graficos(r) \/ Pdf(r) \/ Enviar(r) \/ Limpeza(r)

NextPedidos == \E r \in Pedidos : PassoDoPedido(r)

SpecPedidos == InitPedidos /\ [][NextPedidos]_vars

\* Every request is served by a thread of its own that runs the handler
\* to its end.
SpecPedidosJusto == SpecPedidos /\ \A r \in Pedidos : WF_vars(PassoDoPedido(r))

----------------------------------------------------------------------------
(* Claims about the normalizer on numeric input                            *)

\* The rows of the table with the result column taken as a float64 column.
ComoColunaFloat(linhas) ==
    [i \in DOMAIN linhas |->
        [linhas[i] EXCEPT !.Resultado_Valor = CelulaFloat(linhas[i].Resultado_Valor)]]

\* The number a numeric cell holds.
ValorNumerico(cel) == IF cel.tipo = "float" THEN cel.n ELSE Num(cel.v, 0)

\* C29: the normalizer leaves a column that is already numeric unchanged:
\* applied to its own output it returns the same values, and a numeric cell
\* read from the source (such as 1234.0) keeps its value.
C29_NormalizadorIdempotente ==
    pci = "limpo" =>
        /\ \A i \in DOMAIN df_ing :
              CleanNumericResultColumn(ComoColunaFloat(df_ing)).linhas[i].Resultado_Valor
                 = df_ing[i].Resultado_Valor
        /\ \A i \in DOMAIN df_ing :
              Lida(df_ing[i]).tipo \in {"float", "int"} =>
                 df_ing[i].Resultado_Valor = ValorNumerico(Lida(df_ing[i]))

\* The part of C29 about the cells read as numbers.
CelulaFloatInalterada ==
    pci = "limpo" =>
        \A i \in DOMAIN df_ing :
            Lida(df_ing[i]).tipo = "float" =>
                df_ing[i].Resultado_Valor = Lida(df_ing[i]).n

\* The part of C29 about integer cells, whose text has no decimal point.
CelulaIntInalterada ==
    pci = "limpo" =>
        \A i \in DOMAIN df_ing :
            Lida(df_ing[i]).tipo = "int" =>
                df_ing[i].Resultado_Valor = Num(Lida(df_ing[i]).v, 0)

----------------------------------------------------------------------------
(* Claims about the two helpers called on their own                        *)

NormalizadorChamado == pcfn = "limpo"
NumeroDeColunasComONome == Cardinality(Posicoes(df_fn.colunas, col_name))

\* The values the call left in the column, one per row of the argument.
ValoresDevolvidos == Coluna(ret_fn.df, col_name)

\* Every row of the argument has a number in the returned column: the
\* parsed value of its cleaned text, or 0 where the text does not parse.
UmValorPorLinha ==
    /\ Len(ret_fn.df.linhas) = Len(df_fn.linhas)
    /\ ret_fn.df.colunas = df_fn.colunas
    /\ \A i \in DOMAIN df_fn.linhas :
          LET n == ToNumeric(TextoLimpo(Coluna(df_fn, col_name)[i]))
          IN /\ ValoresDevolvidos[i].cls # "nan"
             /\ ValoresDevolvidos[i] = IF n.cls = "nan" THEN Zero ELSE n

\* C23: the normalizer never raises: for every table and every column name
\* it returns a table whose column holds a value for every row, 0 where
\* the conversion failed.
C23_NormalizadorNuncaLevanta ==
    NormalizadorChamado => (ret_fn.erro = SemErro /\ UmValorPorLinha)

\* C23, amended: the normalizer raises KeyError when the name is no column
\* of the table and AttributeError when more than one column has the name;
\* with the name on exactly one column it does not raise and the column
\* holds a value for every row, 0 where the conversion failed.
C23_LevantaSemColunaUnica ==
    NormalizadorChamado =>
        /\ NumeroDeColunasComONome = 0 => ret_fn.erro = "KeyError"
        /\ NumeroDeColunasComONome > 1 => ret_fn.erro = "AttributeError"
        /\ NumeroDeColunasComONome = 1 => (ret_fn.erro = SemErro /\ UmValorPorLinha)

C23_Witness ==
    /\ NormalizadorChamado
    /\ ret_fn.erro = SemErro
    /\ df_fn = [colunas |-> <<"Robo", "Resultado_Valor">>,
                linhas |-> <<<<Texto(<<"1", "2">>), Texto(<<"a">>)>>>>]
    /\ col_name = "Resultado_Valor"
    /\ ValoresDevolvidos = <<Zero>>

NormalizadorLevantouKeyError ==
    NormalizadorChamado /\ ret_fn.erro = "KeyError" /\ Len(df_fn.linhas) = 1

\* No name of the priority list is a header of the argument.
NenhumaColunaDeResultado ==
    OriginalColName(df_fn.colunas, PRIMARY_RESULT_COLUMN_EXCEL,
                    FALLBACK_RESULT_COLUMNS_EXCEL) = SemColuna

\* C24: when no column matches, the error raised by the rename helper
\* carries both the list of the names tried and the list of the columns
\* actually present.
C24_ErroLevaNomesEColunas ==
    (pcfn = "renomeado" /\ NenhumaColunaDeResultado) =>
        /\ ret_fn.erro = "ValueError"
        /\ "cols_list" \in DOMAIN ret_fn.args
        /\ ret_fn.args.cols_list =
              <<PRIMARY_RESULT_COLUMN_EXCEL>> \o FALLBACK_RESULT_COLUMNS_EXCEL
        /\ "columns" \in DOMAIN ret_fn.args
        /\ ret_fn.args.columns = df_fn.colunas

\* The part of C24 that holds: the error carries the names tried, and both
\* lists are written to the log.
ErroLevaNomesTentados ==
    (pcfn = "renomeado" /\ NenhumaColunaDeResultado) =>
        /\ ret_fn.erro = "ValueError"
        /\ ret_fn.args.cols_list =
              <<PRIMARY_RESULT_COLUMN_EXCEL>> \o FALLBACK_RESULT_COLUMNS_EXCEL
        /\ ret_fn.log.columns = df_fn.colunas

----------------------------------------------------------------------------
(* Claims about what the ingestors hand back                               *)

IngestorDevolveu == pcf = "retornado"

\* The diagnostics of one ingestion: rows dropped for a null original
\* result, parse failures of the normalizer, sources that failed.
DiagnosticosDaIngestao == {"original_nan_count", "nan_conversion_count", "failed_files"}

\* C22: every diagnostic of a request (rows dropped for a null original
\* result, numeric parse failures, the list of failed sources) is part of
\* what the ingestor returns to its caller, not only written to the log.
C22_DiagnosticosDevolvidos ==
    IngestorDevolveu =>
        /\ DiagnosticosDaIngestao \subseteq DOMAIN retorno_ingestor
        /\ upload_type = "multiple" => retorno_ingestor.failed_files = failed_files

\* What the ingestors do return: the table and the name of the result
\* column as it was found, nothing else.
IngestorDevolveSoTabelaENome ==
    IngestorDevolveu => DOMAIN retorno_ingestor = {"df", "nome"}

----------------------------------------------------------------------------
(* Claims about the bookkeeping of the batch loop                          *)

NoLacoDoLote == upload_type = "multiple" /\ pcf = "inicio"
FontesTratadas == file_index - 1

\* C28: after each iteration of the loop of processar_dados_csv every
\* source handled so far is in exactly one of the two lists: an iteration
\* adds one entry to exactly one of them, accepted tables plus failure
\* entries equal the sources handled, and processed_files_count is the
\* number of accepted tables.
C28_CadaFonteEmUmaLista ==
    /\ [](NoLacoDoLote =>
            /\ Len(dfs) + Len(failed_files) = FontesTratadas
            /\ processed_files_count = Len(dfs))
    /\ [][CsvArquivo =>
            /\ file_index' = file_index + 1
            /\ \/ Len(dfs') = Len(dfs) + 1 /\ failed_files' = failed_files
               \/ Len(failed_files') = Len(failed_files) + 1 /\ dfs' = dfs
            /\ processed_files_count' = Len(dfs')]_vars

C28_Witness ==
    /\ NoLacoDoLote
    /\ FontesTratadas = 2
    /\ Len(dfs) = 1
    /\ Len(failed_files) = 1
    /\ processed_files_count = 1

----------------------------------------------------------------------------
(* Claims about the counts of the report                                   *)

\* C25: in every result of the consolidator the count of operations
\* without a specific time plus the count of operations with a specific
\* time is the total number of operations read, also for datasets with
\* invalid open or close times.
C25_ContagensSomamOTotal ==
    ConsolidadoDevolvido =>
        count_sem_horario_especifico_display + count_operacoes_com_hora
           = count_operacoes_total_originais

\* What the two counts add up to: the total less the rows that have a
\* specific open time and were dropped for their close time.
ContagensSemAsDescartadasPeloFechamento ==
    ConsolidadoDevolvido =>
        count_sem_horario_especifico_display + count_operacoes_com_hora
           = count_operacoes_total_originais
               - Cardinality({i \in DOMAIN banco_geral_bruto.linhas :
                                 /\ AberturaValida(banco_geral_bruto.linhas[i])
                                 /\ ~MeiaNoiteExata(banco_geral_bruto.linhas[i])
                                 /\ ~FechamentoValido(banco_geral_bruto.linhas[i])})

----------------------------------------------------------------------------
(* Claims relating the global best interval to the per-entity ones         *)

GraficoTerminou == pcg = "fim"

\* No row of the window view has a null entity.
SemEntidadeNula ==
    \A i \in DOMAIN banco_filtrado_8_18.linhas :
        banco_filtrado_8_18.linhas[i].Robo # RoboNulo

\* C27: for every window-filtered view the global best-interval gain is at
\* most the sum of the per-entity best-interval gains over the same minute
\* range.
C27_GlobalNaoExcedeSomaPorEntidade ==
    GraficoTerminou =>
        melhor_intervalo_geral.ganho
           <= TotalDaTabelaPorEntidade(melhores_intervalos_robos_list)

\* The bound for the views all of whose rows name an entity.
GlobalNaoExcedeSomaComEntidades ==
    (GraficoTerminou /\ SemEntidadeNula) =>
        melhor_intervalo_geral.ganho
           <= TotalDaTabelaPorEntidade(melhores_intervalos_robos_list)

----------------------------------------------------------------------------
(* Claims about the scratch directory of the requests                      *)

\* The request has written files that it has not sent yet.
EmVoo(r) == pcp[r] \in {"pdf", "enviar"}

NomesDeArquivo == {"grafico", "pdf"}

\* C21: concurrent requests run on state of their own: the cleanup of one
\* request never removes or overwrites a file that another request in
\* flight has written and not yet sent.
C21_LimpezaNaoAfetaOutroPedido ==
    [][\A r \in Pedidos :
          (/\ EmVoo(r)
           /\ pcp'[r] = pcp[r]
           /\ \E q \in Pedidos \ {r} : limpezas'[q] > limpezas[q])
             => \A f \in NomesDeArquivo :
                   relatorios_dir.arquivos[f] = r => relatorios_dir'.arquivos[f] = r]_vars

\* The same for the writes: no request overwrites a file of another
\* request in flight.
NenhumPedidoSobrescreveOutro ==
    [][\A r \in Pedidos :
          (EmVoo(r) /\ pcp'[r] = pcp[r])
             => \A f \in NomesDeArquivo :
                   relatorios_dir.arquivos[f] = r
                      => relatorios_dir'.arquivos[f] \in {r, SemDono}]_vars

\* C30: every POST request that creates the report directory ends with the
\* directory cleaned up: after criar_diretorio_seguro, on every exit path
\* of index(), limpar_diretorio_seguro is eventually called.
C30_TodaSaidaLimpa ==
    \A r \in Pedidos : (pcp[r] = "criado") ~> (limpezas[r] > 0)

\* The exit paths that do call limpar_diretorio_seguro: all but the one
\* for a missing file.
SaidasQueLimpam ==
    \A r \in Pedidos :
        (pcp[r] = "fim" /\ saida[r] # "sem_arquivo") => limpezas[r] > 0

SaidaSemArquivoNaoLimpa ==
    \A r \in Pedidos :
        (pcp[r] = "fim" /\ saida[r] = "sem_arquivo") => limpezas[r] = 0
====
